---- MODULE Spec2Model ----
(***************************************************************************)
(* A model of the calculations API: the user directory, the calculation    *)
(* ledger, the bearer-token authorization dependencies and the HTTP        *)
(* handlers of app/main.py.  Every handler is one atomic step (one request *)
(* = one unit of work against the store).  The last request and its        *)
(* response are kept in req / resp so that status codes and bodies can be  *)
(* related to the store before and after the step.                         *)
(*                                                                         *)
(* app/models and app/schemas are not part of the sources at hand; what    *)
(* the handlers need from them (the arithmetic engine, User.register,      *)
(* User.authenticate, password hashing, token verification, request        *)
(* validation) is modelled from the written specification and marked so.   *)
(***************************************************************************)
EXTENDS Integers, Sequences, FiniteSets, TLC

VARIABLES
    users,      \* the users table: user id -> row
    calcs,      \* the calculations table: calculation id -> row
    nextUid,    \* number of user ids handed out so far (ids are never reused)
    nextCid,    \* number of calculation ids handed out so far
    issued,     \* user ids for which a signed access token is in circulation
    now,        \* the wall clock
    created,    \* history: <<user, calculation>> for every calculation the user
                \* created through POST /calculations and has not deleted
    req,        \* the request handled by the last step
    resp,       \* the response to it
    txn         \* the requests in flight whose reads and commit are separate
                \* steps (where concurrent requests are modelled)

vars == <<users, calcs, nextUid, nextCid, issued, now, created, req, resp, txn>>

store == <<users, calcs, nextUid, nextCid, issued, now, created, txn>>

----------------------------------------------------------------------------
(* Bounds of the model *)

MaxUsers == 2
MaxCalcs == 2
MaxLen   == 3              \* longest operand list given to the engine alone
MaxInflight == 2           \* requests in flight at once
MaxExpiry == 30            \* latest expiry given to the expiry computation alone
MaxClock == 1              \* the clock stops here (where a clock is modelled)

----------------------------------------------------------------------------
(* Numbers.  Operands are integers; results are exact rationals <<n, d>>   *)
(* with d > 0 in lowest terms (the code computes in floating point; the    *)
(* model keeps the exact value).                                           *)

Abs(x) == IF x < 0 THEN -x ELSE x

RECURSIVE GCD(_, _)
GCD(a, b) == IF b = 0 THEN a ELSE GCD(b, a % b)

Norm(n, d) ==
    LET g == GCD(Abs(n), Abs(d))
        s == IF d < 0 THEN -1 ELSE 1
    IN  <<(s * n) \div g, (s * d) \div g>>

Num(x) == <<x, 1>>
RAdd(p, q) == Norm(p[1] * q[2] + q[1] * p[2], p[2] * q[2])
RSub(p, q) == Norm(p[1] * q[2] - q[1] * p[2], p[2] * q[2])
RMul(p, q) == Norm(p[1] * q[1], p[2] * q[2])
RDiv(p, q) == Norm(p[1] * q[2], p[2] * q[1])

----------------------------------------------------------------------------
(* The calculation engine: evaluate(kind, inputs).                         *)

Kinds == {"add", "subtract", "multiply", "divide"}

Canon(kind) ==
    CASE kind \in Kinds            -> kind
      [] kind = "addition"         -> "add"
      [] kind = "subtraction"      -> "subtract"
      [] kind = "multiplication"   -> "multiply"
      [] kind = "division"         -> "divide"
      [] OTHER                     -> "unknown"

Ok(v)   == [ok |-> TRUE,  val |-> v,        err |-> ""]
Err(e)  == [ok |-> FALSE, val |-> <<0, 1>>, err |-> e]

DivisionByZero == "Cannot divide by zero"
InvalidArity   == "Inputs must be a list with at least two numbers"
UnknownKind    == "Unsupported calculation type"

\* left-to-right reduction of the operands after the first, acc being the
\* value so far; a zero divisor stops a division at once
RECURSIVE Reduce(_, _, _)
Reduce(k, acc, rest) ==
    IF rest = <<>> THEN Ok(acc)
    ELSE LET x == Head(rest) IN
         CASE k = "add"      -> Reduce(k, RAdd(acc, Num(x)), Tail(rest))
           [] k = "subtract" -> Reduce(k, RSub(acc, Num(x)), Tail(rest))
           [] k = "multiply" -> Reduce(k, RMul(acc, Num(x)), Tail(rest))
           [] k = "divide"   -> IF x = 0 THEN Err(DivisionByZero)
                                ELSE Reduce(k, RDiv(acc, Num(x)), Tail(rest))

\* (variant: only the divisor in second place is looked at; a zero further
\* on is passed over)
get_result_SecondOnly(kind, inputs) ==
    IF Len(inputs) < 2 THEN Err(InvalidArity)
    ELSE IF Canon(kind) = "divide"
    THEN IF inputs[2] = 0 THEN Err(DivisionByZero)
         ELSE Reduce("divide", Num(Head(inputs)),
                     SelectSeq(Tail(inputs), LAMBDA x : x # 0))
    ELSE Reduce(Canon(kind), Num(Head(inputs)), Tail(inputs))

\* (variant: the first two operands only)
get_result_FirstTwo(kind, inputs) ==
    IF Len(inputs) < 2 THEN Err(InvalidArity)
    ELSE Reduce(Canon(kind), Num(inputs[1]), <<inputs[2]>>)

\* (variant: a single operand is its own result)
get_result_UnaryIdentity(kind, inputs) ==
    IF Len(inputs) = 0 THEN Err(InvalidArity)
    ELSE Reduce(Canon(kind), Num(Head(inputs)), Tail(inputs))

\* get_result of a calculation of a known kind
get_result(kind, inputs) ==
    IF Len(inputs) < 2 THEN Err(InvalidArity)
    ELSE Reduce(Canon(kind), Num(Head(inputs)), Tail(inputs))

evaluate(kind, inputs) ==
    IF Canon(kind) = "unknown" THEN Err(UnknownKind)
    ELSE get_result(kind, inputs)

----------------------------------------------------------------------------
(* Strings the requests draw from.  Two spellings that differ only in      *)
(* letter case are present for usernames and for emails.                    *)

Usernames  == {"amy", "AMY", "bob"}
Emails     == {"a@x.io", "A@x.io", "b@x.io"}
FirstNames == {"Ann", "Bea"}
Passwords  == {"Pass1!", "Pass2!"}
Unset      == ""           \* a field the request leaves out

Lower(s) ==
    CASE s = "AMY"    -> "amy"
      [] s = "A@x.io" -> "a@x.io"
      [] OTHER        -> s

NoUser == 0                \* no user id
Never  == -1               \* last_login of a user who never logged in

----------------------------------------------------------------------------
(* Credential and token service *)

hash_password(plain) == <<"hash", plain>>

verify_password(plain, hash) == hash = hash_password(plain)

\* Tokens are stateless.  "ok": signed, unexpired, subject sub; "nosub": a
\* verified payload without subject; "bad": malformed, expired or mis-signed.
Token(kind, sub) == [kind |-> kind, sub |-> sub]
BadToken   == Token("bad", NoUser)
NoSubToken == Token("nosub", NoUser)

\* verify_token: the payload, or none
verify_token(token) ==
    CASE token.kind = "ok"    -> [valid |-> TRUE,  hasSub |-> TRUE,  sub |-> token.sub]
      [] token.kind = "nosub" -> [valid |-> TRUE,  hasSub |-> FALSE, sub |-> NoUser]
      [] OTHER                -> [valid |-> FALSE, hasSub |-> FALSE, sub |-> NoUser]

----------------------------------------------------------------------------
(* Responses *)

Response(status, detail, body) == [status |-> status, detail |-> detail, body |-> body]

NoBody == <<>>

\* UserResponse: the row without its password
UserResponse(id, u) ==
    [id |-> id, username |-> u.username, email |-> u.email,
     first_name |-> u.first_name, is_active |-> u.is_active,
     last_login |-> u.last_login, created_at |-> u.created_at]

----------------------------------------------------------------------------
(* Authorization dependencies (app/auth/dependencies.py) *)

CredentialsDetail == "Could not validate credentials"
InactiveDetail    == "Inactive user"

AuthOk(uid)          == [ok |-> TRUE,  uid |-> uid,    status |-> 200, detail |-> ""]
AuthFail(status, d)  == [ok |-> FALSE, uid |-> NoUser, status |-> status, detail |-> d]

\* (variant: each failure is reported for what it is)
get_current_user_Telling(db_users, token) ==
    LET token_data == verify_token(token) IN
    IF ~token_data.valid THEN AuthFail(401, "Invalid or expired token")
    ELSE IF ~token_data.hasSub THEN AuthFail(401, "Token has no subject")
    ELSE IF token_data.sub \notin DOMAIN db_users THEN AuthFail(404, "User not found")
    ELSE AuthOk(token_data.sub)

get_current_user(db_users, token) ==
    LET token_data == verify_token(token) IN
    IF ~token_data.valid THEN AuthFail(401, CredentialsDetail)
    ELSE IF ~token_data.hasSub THEN AuthFail(401, CredentialsDetail)
    ELSE IF token_data.sub \notin DOMAIN db_users THEN AuthFail(401, CredentialsDetail)
    ELSE AuthOk(token_data.sub)

\* (variant: the active flag is not looked at)
get_current_active_user_Unchecked(db_users, token) ==
    get_current_user(db_users, token)

get_current_active_user(db_users, token) ==
    LET current_user == get_current_user(db_users, token) IN
    IF ~current_user.ok THEN current_user
    ELSE IF ~db_users[current_user.uid].is_active THEN AuthFail(400, InactiveDetail)
    ELSE current_user

----------------------------------------------------------------------------
(* Path parameters.  An id in a path is a string: the canonical spelling of *)
(* an id (what str(id) gives), another spelling of the same id that the     *)
(* UUID parser accepts (upper-case digits), or no id at all: a string that  *)
(* has not the 32 digits of an id ("bad", 'not-a-uuid'), or one of that     *)
(* length with a character that is no hexadecimal digit ("nonhex": 32 times *)
(* z for id 0, the text of an id with g for its last digit otherwise).      *)

Path(id, form) == [id |-> id, form |-> form]
BadPath == Path(0, "bad")

\* (variant: every string is taken for an id)
ParseUUID_Lenient(path) == [ok |-> TRUE, id |-> path.id, err |-> ""]

\* UUID(path): ok with the id, or ValueError.  The parser checks the length
\* of the digits first and then reads them as a number in base 16.
ParseUUID(path) ==
    IF path.form = "bad"
    THEN [ok |-> FALSE, id |-> path.id, err |-> "badly formed hexadecimal UUID string"]
    ELSE IF path.form = "nonhex"
    THEN [ok |-> FALSE, id |-> path.id,
          err |-> "invalid literal for int() with base 16: '"
                  \o (IF path.id = 0 THEN "zzzzzzzzzzzzzzzzzzzzzzzzzzzzzzzz"
                      ELSE "f000000000004000800000000000000g")
                  \o "'"]
    ELSE [ok |-> TRUE, id |-> path.id, err |-> ""]

\* (variant: the self check compares nothing)
NotSelf_Never(uid, path) == FALSE

\* str(current_user.id) != user_id
NotSelf(uid, path) == ~(path.form = "canon" /\ path.id = uid)

----------------------------------------------------------------------------
(* User directory (app/operations/users.py and the User model) *)

AlreadyExists == "Username or email already exists"

\* User.register: uniqueness is checked case-insensitively, then the row
\* is built with the hashed password
User_register(db_users, data, t) ==
    IF \E j \in DOMAIN db_users :
          \/ Lower(db_users[j].username) = Lower(data.username)
          \/ Lower(db_users[j].email) = Lower(data.email)
    THEN [ok |-> FALSE, err |-> AlreadyExists, user |-> <<>>]
    ELSE [ok |-> TRUE, err |-> "",
          user |-> <<[username |-> data.username, email |-> data.email,
                      first_name |-> data.first_name,
                      password |-> hash_password(data.password),
                      is_active |-> TRUE, last_login |-> Never,
                      created_at |-> t]>>]

UserOperations_register_user(db_users, user_data, t) ==
    User_register(db_users, user_data, t)

\* (variant: the identifier is looked up among the usernames only)
User_authenticate_UsernameOnly(db_users, username_or_email, password) ==
    LET found == {j \in DOMAIN db_users :
                     /\ db_users[j].username = username_or_email
                     /\ verify_password(password, db_users[j].password)}
    IN  IF found = {} THEN NoUser ELSE CHOOSE j \in found : TRUE

\* User.authenticate: the user whose username or email is the identifier
\* and whose password verifies, or none
User_authenticate(db_users, username_or_email, password) ==
    LET found == {j \in DOMAIN db_users :
                     /\ \/ db_users[j].username = username_or_email
                        \/ db_users[j].email = username_or_email
                     /\ verify_password(password, db_users[j].password)}
    IN  IF found = {} THEN NoUser ELSE CHOOSE j \in found : TRUE

InvalidCredentials == "Invalid username or password"

\* (variant: an unknown identifier is told apart from a wrong password)
UserOperations_authenticate_user_Telling(db_users, username_or_email, password) ==
    LET auth_result == User_authenticate(db_users, username_or_email, password) IN
    IF auth_result # NoUser
    THEN [ok |-> TRUE, err |-> "", uid |-> auth_result]
    ELSE IF \E j \in DOMAIN db_users :
               db_users[j].username = username_or_email \/ db_users[j].email = username_or_email
    THEN [ok |-> FALSE, err |-> "Incorrect password", uid |-> NoUser]
    ELSE [ok |-> FALSE, err |-> "User not found", uid |-> NoUser]

UserOperations_authenticate_user(db_users, username_or_email, password) ==
    LET auth_result == User_authenticate(db_users, username_or_email, password) IN
    IF auth_result = NoUser
    THEN [ok |-> FALSE, err |-> InvalidCredentials, uid |-> NoUser]
    ELSE [ok |-> TRUE, err |-> "", uid |-> auth_result]

\* str(user_id): the canonical text of an id. Ids are numbered in the model;
\* the n-th id is written as the UUID whose last group is n.
str_UUID(user_id) ==
    "f0000000-0000-4000-8000-"
        \o (IF user_id < 10 THEN "00000000000" ELSE "0000000000")
        \o ToString(user_id)

UserOperations_get_user_by_id(db_users, user_id) ==
    IF user_id \in DOMAIN db_users
    THEN [ok |-> TRUE, err |-> ""]
    ELSE [ok |-> FALSE, err |-> "User with ID " \o str_UUID(user_id) \o " not found"]

\* update_data.dict(exclude_unset=True): the fields the request supplies
Supplied(update_data) == {f \in DOMAIN update_data : update_data[f] # Unset}

\* the uniqueness queries of update_user: exact comparison, other users only
UsernameTaken(db_users, user_id, username) ==
    \E j \in DOMAIN db_users : db_users[j].username = username /\ j # user_id

EmailTaken(db_users, user_id, email) ==
    \E j \in DOMAIN db_users : db_users[j].email = email /\ j # user_id

\* (variant: every field of the payload is written, supplied or not)
User_update_Overwrite(u, update_data) ==
    [f \in DOMAIN u |->
        IF f \in DOMAIN update_data THEN update_data[f] ELSE u[f]]

\* user.update(**update_dict)
User_update(u, update_data) ==
    [f \in DOMAIN u |->
        IF f \in Supplied(update_data) THEN update_data[f] ELSE u[f]]

UserOperations_update_user(db_users, user_id, update_data) ==
    IF ~UserOperations_get_user_by_id(db_users, user_id).ok
    THEN [ok |-> FALSE, err |-> UserOperations_get_user_by_id(db_users, user_id).err,
          users |-> db_users]
    ELSE IF "username" \in Supplied(update_data)
            /\ UsernameTaken(db_users, user_id, update_data.username)
    THEN [ok |-> FALSE, err |-> "Username already exists", users |-> db_users]
    ELSE IF "email" \in Supplied(update_data)
            /\ EmailTaken(db_users, user_id, update_data.email)
    THEN [ok |-> FALSE, err |-> "Email already exists", users |-> db_users]
    ELSE [ok |-> TRUE, err |-> "",
          users |-> [db_users EXCEPT ![user_id] = User_update(@, update_data)]]

\* (variant: the current password is not verified)
UserOperations_change_password_Unverified(db_users, user_id, password_data) ==
    IF ~UserOperations_get_user_by_id(db_users, user_id).ok
    THEN [ok |-> FALSE, err |-> UserOperations_get_user_by_id(db_users, user_id).err,
          users |-> db_users]
    ELSE [ok |-> TRUE, err |-> "",
          users |-> [db_users EXCEPT ![user_id].password =
                                        hash_password(password_data.new_password)]]

UserOperations_change_password(db_users, user_id, password_data) ==
    IF ~UserOperations_get_user_by_id(db_users, user_id).ok
    THEN [ok |-> FALSE, err |-> UserOperations_get_user_by_id(db_users, user_id).err,
          users |-> db_users]
    ELSE IF ~verify_password(password_data.current_password, db_users[user_id].password)
    THEN [ok |-> FALSE, err |-> "Current password is incorrect", users |-> db_users]
    ELSE [ok |-> TRUE, err |-> "",
          users |-> [db_users EXCEPT ![user_id].password =
                                        hash_password(password_data.new_password)]]

UserOperations_deactivate_user(db_users, user_id) ==
    IF ~UserOperations_get_user_by_id(db_users, user_id).ok
    THEN [ok |-> FALSE, err |-> UserOperations_get_user_by_id(db_users, user_id).err,
          users |-> db_users]
    ELSE [ok |-> TRUE, err |-> "",
          users |-> [db_users EXCEPT ![user_id].is_active = FALSE]]

\* (variant: the row is kept; the delete only answers)
Without_Kept(f, k) == f

Without(f, k) == [j \in DOMAIN f \ {k} |-> f[j]]

\* (variant: the row is kept and marked inactive)
UserOperations_delete_user_Soft(db_users, user_id) ==
    IF ~UserOperations_get_user_by_id(db_users, user_id).ok
    THEN [ok |-> FALSE, err |-> UserOperations_get_user_by_id(db_users, user_id).err,
          users |-> db_users]
    ELSE [ok |-> TRUE, err |-> "",
          users |-> [db_users EXCEPT ![user_id].is_active = FALSE]]

UserOperations_delete_user(db_users, user_id) ==
    IF ~UserOperations_get_user_by_id(db_users, user_id).ok
    THEN [ok |-> FALSE, err |-> UserOperations_get_user_by_id(db_users, user_id).err,
          users |-> db_users]
    ELSE [ok |-> TRUE, err |-> "", users |-> Without(db_users, user_id)]

\* (variant: the calculations of a deleted user are kept)
CascadeDelete_Orphans(db_calcs, user_id) == db_calcs

\* the calculations that go with a deleted user (cascade on the owner)
CascadeDelete(db_calcs, user_id) ==
    [c \in {c \in DOMAIN db_calcs : db_calcs[c].user_id # user_id} |-> db_calcs[c]]

----------------------------------------------------------------------------
(* User endpoints (app/main.py) *)

Request(op, token, path, data) == [op |-> op, token |-> token, path |-> path, data |-> data]

NoToken == Token("none", NoUser)
NoPath  == Path(0, "none")
NoData  == <<>>

\* Requests are served one at a time: a handler runs when no response is
\* pending, and its response is pending until the client has taken it.
NoRequest  == Request("none", NoToken, NoPath, NoData)
NoResponse == Response(0, "", NoBody)
Idle == req = NoRequest

\* UserCreate validation: the password must satisfy the strength policy
ValidUserCreate(data) == data.password \in Passwords

\* (variant: the ValueError is not caught)
RegisterError_Unhandled(e) == Response(500, "Internal Server Error", NoBody)

\* except ValueError: rollback, 400 with the message
RegisterError(e) == Response(400, e, NoBody)

\* POST /users/register
register_user(user_create) ==
    LET r == UserOperations_register_user(users, user_create, now) IN
    /\ Idle
    /\ req' = Request("register_user", NoToken, NoPath, user_create)
    /\ IF ~ValidUserCreate(user_create)
       THEN /\ resp' = Response(422, "Password does not meet the policy", NoBody)
            /\ UNCHANGED store
       ELSE IF r.ok
       THEN /\ nextUid < MaxUsers
            /\ users' = users @@ ((nextUid + 1) :> r.user[1])
            /\ nextUid' = nextUid + 1
            /\ resp' = Response(201, "", <<UserResponse(nextUid + 1, r.user[1])>>)
            /\ UNCHANGED <<calcs, nextCid, issued, now, created, txn>>
       ELSE /\ resp' = RegisterError(r.err)
            /\ UNCHANGED store

\* except ValueError: 401 with the message
LoginError(e) == Response(401, e, NoBody)

\* Timestamps of expiry: minutes on the wall clock, with or without a time
\* zone; NoExpiry: authentication reported none.
Expiry(at, tz) == [at |-> at, tz |-> tz]
NoExpiry == [at |-> Never, tz |-> "none"]

FallbackMinutes == 15      \* timedelta(minutes=15)
AccessLifetime  == 15      \* lifetime of an access token

\* what authentication may report for a token issued at t
ReportedExpiries(t) ==
    {NoExpiry, Expiry(t + AccessLifetime, "naive"), Expiry(t + AccessLifetime, "utc")}

\* the expires_at of the login response:
\*   if expires_at and expires_at.tzinfo is None: expires_at.replace(tzinfo=utc)
\*   else: now + 15 minutes
ResponseExpiresAt(reported, t) ==
    IF reported # NoExpiry /\ reported.tz = "naive"
    THEN Expiry(reported.at, "utc")
    ELSE Expiry(t + FallbackMinutes, "utc")

\* (variant: a successful login makes the account active again)
login_user_Reactivates(user_login) ==
    LET auth_result == UserOperations_authenticate_user(
                           users, user_login.username, user_login.password)
        uid == auth_result.uid
    IN
    /\ Idle
    /\ req' = Request("login_user", NoToken, NoPath, user_login)
    /\ IF auth_result.ok
       THEN /\ users' = [users EXCEPT ![uid].last_login = now, ![uid].is_active = TRUE]
            /\ issued' = issued \cup {uid}
            /\ \E reported \in ReportedExpiries(now) :
                  resp' = Response(200, "",
                     <<[access_token |-> Token("ok", uid), user_id |-> uid,
                        expires_at |-> ResponseExpiresAt(reported, now),
                        username |-> users[uid].username, email |-> users[uid].email,
                        is_active |-> TRUE]>>)
            /\ UNCHANGED <<calcs, nextUid, nextCid, now, created, txn>>
       ELSE /\ resp' = LoginError(auth_result.err)
            /\ UNCHANGED store

\* POST /users/login
login_user(user_login) ==
    LET auth_result == UserOperations_authenticate_user(
                           users, user_login.username, user_login.password)
        uid == auth_result.uid
    IN
    /\ Idle
    /\ req' = Request("login_user", NoToken, NoPath, user_login)
    /\ IF auth_result.ok
       THEN /\ users' = [users EXCEPT ![uid].last_login = now]
            /\ issued' = issued \cup {uid}
            /\ \E reported \in ReportedExpiries(now) :
                  resp' = Response(200, "",
                     <<[access_token |-> Token("ok", uid), user_id |-> uid,
                        expires_at |-> ResponseExpiresAt(reported, now),
                        username |-> users[uid].username, email |-> users[uid].email,
                        is_active |-> users[uid].is_active]>>)
            /\ UNCHANGED <<calcs, nextUid, nextCid, now, created, txn>>
       ELSE /\ resp' = LoginError(auth_result.err)
            /\ UNCHANGED store

\* POST /auth/token (the form login; tokenUrl of the bearer scheme)
login_form(form_data) ==
    LET auth_result == UserOperations_authenticate_user(
                           users, form_data.username, form_data.password)
        uid == auth_result.uid
    IN
    /\ Idle
    /\ req' = Request("login_form", NoToken, NoPath, form_data)
    /\ IF auth_result.ok
       THEN /\ users' = [users EXCEPT ![uid].last_login = now]
            /\ issued' = issued \cup {uid}
            /\ resp' = Response(200, "",
                     <<[access_token |-> Token("ok", uid), token_type |-> "bearer"]>>)
            /\ UNCHANGED <<calcs, nextUid, nextCid, now, created, txn>>
       ELSE /\ resp' = Response(401, "Invalid username or password", NoBody)
            /\ UNCHANGED store

\* GET /users/me
get_current_user_profile(token) ==
    LET current_user == get_current_active_user(users, token) IN
    /\ Idle
    /\ req' = Request("get_current_user_profile", token, NoPath, NoData)
    /\ resp' = IF ~current_user.ok
               THEN Response(current_user.status, current_user.detail, NoBody)
               ELSE Response(200, "", <<UserResponse(current_user.uid, users[current_user.uid])>>)
    /\ UNCHANGED store

\* GET /users/{user_id}
get_user(user_id) ==
    LET parsed == ParseUUID(user_id) IN
    /\ Idle
    /\ req' = Request("get_user", NoToken, user_id, NoData)
    /\ resp' = IF ~parsed.ok
               THEN Response(404, parsed.err, NoBody)
               ELSE IF ~UserOperations_get_user_by_id(users, parsed.id).ok
               THEN Response(404, UserOperations_get_user_by_id(users, parsed.id).err,
                             NoBody)
               ELSE Response(200, "", <<UserResponse(parsed.id, users[parsed.id])>>)
    /\ UNCHANGED store

\* (variant: the path id is compared before the caller is authenticated)
update_user_profile_SelfFirst(token, user_id, user_update) ==
    LET current_user == get_current_active_user(users, token)
        r == UserOperations_update_user(users, user_id.id, user_update)
    IN
    /\ Idle
    /\ req' = Request("update_user_profile", token, user_id, user_update)
    /\ IF NotSelf(token.sub, user_id)
       THEN /\ resp' = Response(403, "You can only update your own profile", NoBody)
            /\ UNCHANGED store
       ELSE IF ~current_user.ok
       THEN /\ resp' = Response(current_user.status, current_user.detail, NoBody)
            /\ UNCHANGED store
       ELSE IF ~r.ok
       THEN /\ resp' = Response(400, r.err, NoBody)
            /\ UNCHANGED store
       ELSE /\ users' = r.users
            /\ resp' = Response(200, "", <<UserResponse(user_id.id, r.users[user_id.id])>>)
            /\ UNCHANGED <<calcs, nextUid, nextCid, issued, now, created, txn>>

\* PUT /users/{user_id}
update_user_profile(token, user_id, user_update) ==
    LET current_user == get_current_active_user(users, token)
        r == UserOperations_update_user(users, user_id.id, user_update)
    IN
    /\ Idle
    /\ req' = Request("update_user_profile", token, user_id, user_update)
    /\ IF ~current_user.ok
       THEN /\ resp' = Response(current_user.status, current_user.detail, NoBody)
            /\ UNCHANGED store
       ELSE IF NotSelf(current_user.uid, user_id)
       THEN /\ resp' = Response(403, "You can only update your own profile", NoBody)
            /\ UNCHANGED store
       ELSE IF ~r.ok
       THEN /\ resp' = Response(400, r.err, NoBody)
            /\ UNCHANGED store
       ELSE /\ users' = r.users
            /\ resp' = Response(200, "", <<UserResponse(user_id.id, r.users[user_id.id])>>)
            /\ UNCHANGED <<calcs, nextUid, nextCid, issued, now, created, txn>>

\* POST /users/{user_id}/change-password
change_user_password(token, user_id, password_data) ==
    LET current_user == get_current_active_user(users, token)
        r == UserOperations_change_password(users, user_id.id, password_data)
    IN
    /\ Idle
    /\ req' = Request("change_user_password", token, user_id, password_data)
    /\ IF ~current_user.ok
       THEN /\ resp' = Response(current_user.status, current_user.detail, NoBody)
            /\ UNCHANGED store
       ELSE IF NotSelf(current_user.uid, user_id)
       THEN /\ resp' = Response(403, "You can only change your own password", NoBody)
            /\ UNCHANGED store
       ELSE IF ~r.ok
       THEN /\ resp' = Response(400, r.err, NoBody)
            /\ UNCHANGED store
       ELSE /\ users' = r.users
            /\ resp' = Response(200, "", <<UserResponse(user_id.id, r.users[user_id.id])>>)
            /\ UNCHANGED <<calcs, nextUid, nextCid, issued, now, created, txn>>

\* POST /users/{user_id}/deactivate
deactivate_user_account(token, user_id) ==
    LET current_user == get_current_active_user(users, token)
        r == UserOperations_deactivate_user(users, user_id.id)
    IN
    /\ Idle
    /\ req' = Request("deactivate_user_account", token, user_id, NoData)
    /\ IF ~current_user.ok
       THEN /\ resp' = Response(current_user.status, current_user.detail, NoBody)
            /\ UNCHANGED store
       ELSE IF NotSelf(current_user.uid, user_id)
       THEN /\ resp' = Response(403, "You can only deactivate your own account", NoBody)
            /\ UNCHANGED store
       ELSE IF ~r.ok
       THEN /\ resp' = Response(404, r.err, NoBody)
            /\ UNCHANGED store
       ELSE /\ users' = r.users
            /\ resp' = Response(200, "", <<UserResponse(user_id.id, r.users[user_id.id])>>)
            /\ UNCHANGED <<calcs, nextUid, nextCid, issued, now, created, txn>>

\* DELETE /users/{user_id}
delete_user_account(token, user_id) ==
    LET current_user == get_current_active_user(users, token)
        r == UserOperations_delete_user(users, user_id.id)
    IN
    /\ Idle
    /\ req' = Request("delete_user_account", token, user_id, NoData)
    /\ IF ~current_user.ok
       THEN /\ resp' = Response(current_user.status, current_user.detail, NoBody)
            /\ UNCHANGED store
       ELSE IF NotSelf(current_user.uid, user_id)
       THEN /\ resp' = Response(403, "You can only delete your own account", NoBody)
            /\ UNCHANGED store
       ELSE IF ~r.ok
       THEN /\ resp' = Response(404, r.err, NoBody)
            /\ UNCHANGED store
       ELSE /\ users' = r.users
            /\ calcs' = CascadeDelete(calcs, user_id.id)
            /\ resp' = Response(204, "", NoBody)
            /\ UNCHANGED <<nextUid, nextCid, issued, now, created, txn>>

----------------------------------------------------------------------------
(* Calculation endpoints (app/main.py) *)

Some(x) == <<x>>           \* an optional value that is present
Nothing == <<>>            \* an optional value that is absent (None)

CalculationResponse(id, c) ==
    [id |-> id, user_id |-> c.user_id, type |-> c.type, inputs |-> c.inputs,
     result |-> c.result, created_at |-> c.created_at, updated_at |-> c.updated_at]

\* Calculation.create: the factory refuses an unknown type
Calculation_create(calculation_type, user_id, inputs) ==
    IF Canon(calculation_type) = "unknown"
    THEN [ok |-> FALSE, err |-> UnknownKind, calc |-> <<>>]
    ELSE [ok |-> TRUE, err |-> "",
          calc |-> <<[user_id |-> user_id, type |-> calculation_type, inputs |-> inputs]>>]

\* Request validation (422, before the handler runs).  An operand list has
\* at least two elements.
ValidInputs(inputs) == Len(inputs) >= 2

\* CalculationBase: validation may also perform the engine's checks of the
\* type and the divisors (strict) or leave them to the handler
ValidCalculationBase(data, strict) ==
    ValidInputs(data.inputs) /\ (strict => evaluate(data.type, data.inputs).ok)

\* CalculationUpdate carries no type: validation can only see the arity
ValidCalculationUpdate(data) == data.inputs = Nothing \/ ValidInputs(data.inputs[1])

\* (variant: the query filters on the id alone)
OwnedCalculation_AnyOwner(db_calcs, calc_uuid, uid) == calc_uuid \in DOMAIN db_calcs

\* the owner-scoped query: filter(Calculation.id == calc_uuid,
\*                               Calculation.user_id == current_user.id).first()
OwnedCalculation(db_calcs, calc_uuid, uid) ==
    calc_uuid \in DOMAIN db_calcs /\ db_calcs[calc_uuid].user_id = uid

\* filter(Calculation.user_id == current_user.id).all(), as a set of ids
CalculationsOf(db_calcs, uid) == {c \in DOMAIN db_calcs : db_calcs[c].user_id = uid}

\* The query of list_calculations has no ORDER BY: the rows come in an
\* order the store chooses.  Orderings(ids): the sequences that hold each
\* id of the set once.
Orderings(ids) ==
    {o \in [1 .. Cardinality(ids) -> ids] :
        \A i, j \in 1 .. Cardinality(ids) : i # j => o[i] # o[j]}

\* the rows of the ids in the given order
RowsInOrder(db_calcs, order) ==
    [k \in 1 .. Len(order) |-> CalculationResponse(order[k], db_calcs[order[k]])]

\* (variant: an owner in the payload is trusted)
NewOwner_FromPayload(current_uid, calculation_data) ==
    IF calculation_data.user_id # NoUser THEN calculation_data.user_id ELSE current_uid

\* the owner the handler gives a new calculation: the authenticated caller
NewOwner(current_uid, calculation_data) == current_uid

\* (variant: a result in the payload is trusted)
NewResult_FromPayload(computed, calculation_data) ==
    IF calculation_data.result # Nothing THEN calculation_data.result[1] ELSE computed

\* the result the handler stores: computed, not read from the payload
NewResult(computed, calculation_data) == computed

\* (variant: the ValueError is not caught)
CreateError_Unhandled(e) == Response(500, "Internal Server Error", NoBody)

\* except ValueError: rollback, 400 with the message
CreateError(e) == Response(400, e, NoBody)

\* POST /calculations.  strict: whether request validation performs the
\* engine's checks itself.
create_calculation(token, calculation_data, strict) ==
    LET current_user == get_current_active_user(users, token)
        made == Calculation_create(calculation_data.type,
                                   NewOwner(current_user.uid, calculation_data),
                                   calculation_data.inputs)
        res  == get_result(calculation_data.type, calculation_data.inputs)
    IN
    /\ Idle
    /\ req' = Request("create_calculation", token, NoPath, calculation_data)
    /\ IF ~current_user.ok
       THEN /\ resp' = Response(current_user.status, current_user.detail, NoBody)
            /\ UNCHANGED store
       ELSE IF ~ValidCalculationBase(calculation_data, strict)
       THEN /\ resp' = Response(422, evaluate(calculation_data.type,
                                              calculation_data.inputs).err, NoBody)
            /\ UNCHANGED store
       ELSE IF ~made.ok
       THEN /\ resp' = CreateError(made.err)
            /\ UNCHANGED store
       ELSE IF ~res.ok
       THEN /\ resp' = CreateError(res.err)
            /\ UNCHANGED store
       ELSE LET new_calculation ==
                    [user_id    |-> made.calc[1].user_id,
                     type       |-> made.calc[1].type,
                     inputs     |-> made.calc[1].inputs,
                     result     |-> NewResult(res.val, calculation_data),
                     created_at |-> now,
                     updated_at |-> now]
            IN  /\ nextCid < MaxCalcs
                /\ calcs' = calcs @@ ((nextCid + 1) :> new_calculation)
                /\ nextCid' = nextCid + 1
                /\ resp' = Response(201, "",
                              <<CalculationResponse(nextCid + 1, new_calculation)>>)
                /\ created' = created \cup {<<current_user.uid, nextCid + 1>>}
                /\ UNCHANGED <<users, nextUid, issued, now, txn>>

\* GET /calculations
list_calculations(token) ==
    LET current_user == get_current_active_user(users, token) IN
    /\ Idle
    /\ req' = Request("list_calculations", token, NoPath, NoData)
    /\ IF ~current_user.ok
       THEN resp' = Response(current_user.status, current_user.detail, NoBody)
       ELSE \E order \in Orderings(CalculationsOf(calcs, current_user.uid)) :
               resp' = Response(200, "", RowsInOrder(calcs, order))
    /\ UNCHANGED store

InvalidIdDetail == "Invalid calculation id format."
NotFoundDetail  == "Calculation not found."

\* GET /calculations/{calc_id}
get_calculation(token, calc_id) ==
    LET current_user == get_current_active_user(users, token)
        calc_uuid == ParseUUID(calc_id)
    IN
    /\ Idle
    /\ req' = Request("get_calculation", token, calc_id, NoData)
    /\ resp' = IF ~current_user.ok
               THEN Response(current_user.status, current_user.detail, NoBody)
               ELSE IF ~calc_uuid.ok
               THEN Response(400, InvalidIdDetail, NoBody)
               ELSE IF ~OwnedCalculation(calcs, calc_uuid.id, current_user.uid)
               THEN Response(404, NotFoundDetail, NoBody)
               ELSE Response(200, "",
                       <<CalculationResponse(calc_uuid.id, calcs[calc_uuid.id])>>)
    /\ UNCHANGED store

\* the status of an exception no handler catches
UnhandledStatus == 500

\* (variant: the inputs are replaced and the result is not recomputed)
ApplyUpdate_StaleResult(calculation, calculation_update, res, t) ==
    IF calculation_update.inputs # Nothing
    THEN [calculation EXCEPT !.inputs = calculation_update.inputs[1],
                             !.updated_at = t]
    ELSE [calculation EXCEPT !.updated_at = t]

\* the row the update leaves: inputs replaced and result recomputed when
\* inputs are supplied, updated_at set to the time of the request
ApplyUpdate(calculation, calculation_update, res, t) ==
    IF calculation_update.inputs # Nothing
    THEN [calculation EXCEPT !.inputs = calculation_update.inputs[1],
                             !.result = res.val,
                             !.updated_at = t]
    ELSE [calculation EXCEPT !.updated_at = t]

\* PUT /calculations/{calc_id}
update_calculation(token, calc_id, calculation_update) ==
    LET current_user == get_current_active_user(users, token)
        calc_uuid == ParseUUID(calc_id)
        calculation == calcs[calc_uuid.id]
        res == get_result(calculation.type, calculation_update.inputs[1])
    IN
    /\ Idle
    /\ req' = Request("update_calculation", token, calc_id, calculation_update)
    /\ IF ~current_user.ok
       THEN /\ resp' = Response(current_user.status, current_user.detail, NoBody)
            /\ UNCHANGED store
       ELSE IF ~ValidCalculationUpdate(calculation_update)
       THEN /\ resp' = Response(422, InvalidArity, NoBody)
            /\ UNCHANGED store
       ELSE IF ~calc_uuid.ok
       THEN /\ resp' = Response(400, InvalidIdDetail, NoBody)
            /\ UNCHANGED store
       ELSE IF ~OwnedCalculation(calcs, calc_uuid.id, current_user.uid)
       THEN /\ resp' = Response(404, NotFoundDetail, NoBody)
            /\ UNCHANGED store
       ELSE IF calculation_update.inputs # Nothing /\ ~res.ok
       THEN \* get_result raises ValueError and nothing catches it: the
            \* session is dropped without a commit
            /\ resp' = Response(UnhandledStatus, "Internal Server Error", NoBody)
            /\ UNCHANGED store
       ELSE LET updated == ApplyUpdate(calculation, calculation_update, res, now)
            IN  /\ calcs' = [calcs EXCEPT ![calc_uuid.id] = updated]
                /\ resp' = Response(200, "", <<CalculationResponse(calc_uuid.id, updated)>>)
                /\ UNCHANGED <<users, nextUid, nextCid, issued, now, created, txn>>

\* DELETE /calculations/{calc_id}
delete_calculation(token, calc_id) ==
    LET current_user == get_current_active_user(users, token)
        calc_uuid == ParseUUID(calc_id)
    IN
    /\ Idle
    /\ req' = Request("delete_calculation", token, calc_id, NoData)
    /\ IF ~current_user.ok
       THEN /\ resp' = Response(current_user.status, current_user.detail, NoBody)
            /\ UNCHANGED store
       ELSE IF ~calc_uuid.ok
       THEN /\ resp' = Response(400, InvalidIdDetail, NoBody)
            /\ UNCHANGED store
       ELSE IF ~OwnedCalculation(calcs, calc_uuid.id, current_user.uid)
       THEN /\ resp' = Response(404, NotFoundDetail, NoBody)
            /\ UNCHANGED store
       ELSE /\ calcs' = Without(calcs, calc_uuid.id)
            /\ resp' = Response(204, "", NoBody)
            /\ created' = created \ {<<current_user.uid, calc_uuid.id>>}
            /\ UNCHANGED <<users, nextUid, nextCid, issued, now, txn>>

\* the client takes the response
Deliver ==
    /\ ~Idle
    /\ req' = NoRequest
    /\ resp' = NoResponse
    /\ UNCHANGED store

\* time passes between two requests
Tick ==
    /\ Idle
    /\ now < MaxClock
    /\ now' = now + 1
    /\ UNCHANGED <<users, calcs, nextUid, nextCid, issued, created, req, resp, txn>>

----------------------------------------------------------------------------
(* Requests in flight.  A request whose handler reads, then commits, then   *)
(* refreshes takes three steps; other requests may commit between them.     *)

Slots == 1 .. MaxInflight

\* pc: "idle" (no request), "checked" (the reads are done, the commit is
\* to come), "committed" (the refresh is to come), "done" (answered)
Txn(pc, op, uid, target, data, r) ==
    [pc |-> pc, op |-> op, uid |-> uid, target |-> target, data |-> data, resp |-> r]

NoTxn == Txn("idle", "none", NoUser, 0, NoData, NoResponse)

NoTxns == [s \in Slots |-> NoTxn]

\* the client takes the response of a request in flight
Finish(s) ==
    /\ txn[s].pc = "done"
    /\ txn' = [txn EXCEPT ![s] = NoTxn]
    /\ UNCHANGED <<users, calcs, nextUid, nextCid, issued, now, created, req, resp>>

----------------------------------------------------------------------------
(* What the clients send *)

UserIds == 1 .. MaxUsers
CalcIds == 1 .. MaxCalcs

\* the bearer tokens a client can present: those issued, and a forged one
Tokens == {Token("ok", i) : i \in issued} \cup {BadToken}

UserPaths == {Path(i, "canon") : i \in UserIds} \cup {Path(1, "upper"), BadPath}
CalcPaths == {Path(c, "canon") : c \in CalcIds} \cup {BadPath}

UserCreate(username, email, first_name, password) ==
    [username |-> username, email |-> email, first_name |-> first_name, password |-> password]

UserLogin(username, password) == [username |-> username, password |-> password]

UserUpdate(username, email, first_name) ==
    [username |-> username, email |-> email, first_name |-> first_name]

PasswordUpdate(current, new) == [current_password |-> current, new_password |-> new]

\* type and inputs, and the extra fields a client may add to the payload
CalculationBase(type, inputs, user_id, result) ==
    [type |-> type, inputs |-> inputs, user_id |-> user_id, result |-> result]

CalculationUpdate(inputs) == [inputs |-> inputs]

Init ==
    /\ users = <<>>
    /\ calcs = <<>>
    /\ nextUid = 0
    /\ nextCid = 0
    /\ issued = {}
    /\ now = 0
    /\ created = {}
    /\ req = NoRequest
    /\ resp = NoResponse
    /\ txn = NoTxns

----------------------------------------------------------------------------
(* The user directory under every user request *)

RegistrationsU ==
    {UserCreate("amy", "a@x.io", "Ann", "Pass1!"),
     UserCreate("bob", "b@x.io", "Ann", "Pass1!"),
     UserCreate("AMY", "b@x.io", "Ann", "Pass1!"),
     UserCreate("bob", "A@x.io", "Ann", "Pass1!"),
     UserCreate("bob", "b@x.io", "Ann", "weak")}

LoginsU ==
    {UserLogin(n, p) : n \in {"amy", "bob", "b@x.io", "nobody"}, p \in Passwords}

UpdatesU ==
    {UserUpdate(Unset, Unset, Unset),
     UserUpdate(Unset, Unset, "Bea"),
     UserUpdate("AMY", Unset, Unset),
     UserUpdate("bob", Unset, "Bea"),
     UserUpdate(Unset, "A@x.io", Unset),
     UserUpdate(Unset, "b@x.io", "Bea")}

NextUsers ==
    \/ \E d \in RegistrationsU : register_user(d)
    \/ \E d \in LoginsU : login_user(d)
    \/ \E d \in LoginsU : login_form(d)
    \/ \E t \in Tokens \cup {NoSubToken} : get_current_user_profile(t)
    \/ \E p \in UserPaths \cup {Path(0, "nonhex"), Path(1, "nonhex")} : get_user(p)
    \/ \E t \in Tokens, p \in UserPaths, d \in UpdatesU : update_user_profile(t, p, d)
    \/ \E t \in Tokens, p \in UserPaths, d \in {PasswordUpdate("Pass1!", "Pass2!"),
                                          PasswordUpdate("Pass2!", "Pass1!")} : change_user_password(t, p, d)
    \/ \E t \in Tokens, p \in UserPaths : deactivate_user_account(t, p)
    \/ \E t \in Tokens, p \in UserPaths : delete_user_account(t, p)
    \/ Deliver

SpecUsers == Init /\ [][NextUsers]_vars

----------------------------------------------------------------------------
(* The calculation ledger under every calculation request, with the user   *)
(* requests that decide who may call                                        *)

RegistrationsC ==
    {UserCreate("amy", "a@x.io", "Ann", "Pass1!"),
     UserCreate("bob", "b@x.io", "Ann", "Pass1!")}

LoginsC == {UserLogin("amy", "Pass1!"), UserLogin("bob", "Pass1!")}

CalcTypes  == {"add", "divide", "invalid_op"}
CalcInputs == {<<3>>, <<4, 2>>, <<1, 0>>}

\* payloads without extra fields, and payloads that also carry an owner
\* and a result
CalculationBases ==
    {CalculationBase(ty, in, NoUser, Nothing) : ty \in CalcTypes, in \in CalcInputs}
    \cup {CalculationBase("add", <<4, 2>>, u, Some(<<7, 1>>)) : u \in UserIds}

CalculationUpdates ==
    {CalculationUpdate(Nothing)} \cup {CalculationUpdate(Some(in)) : in \in CalcInputs}

Next ==
    \/ \E d \in RegistrationsC : register_user(d)
    \/ \E d \in LoginsC : login_user(d)
    \/ \E d \in LoginsC : login_form(d)
    \/ \E t \in Tokens : deactivate_user_account(t, Path(t.sub, "canon"))
    \/ \E t \in Tokens : delete_user_account(t, Path(t.sub, "canon"))
    \/ \E t \in Tokens, d \in CalculationBases, v \in BOOLEAN :
          create_calculation(t, d, v)
    \/ \E t \in Tokens : list_calculations(t)
    \/ \E t \in Tokens, p \in CalcPaths : get_calculation(t, p)
    \/ \E t \in Tokens, p \in CalcPaths, d \in CalculationUpdates :
          update_calculation(t, p, d)
    \/ \E t \in Tokens, p \in CalcPaths : delete_calculation(t, p)
    \/ Deliver

Spec == Init /\ [][Next]_vars

----------------------------------------------------------------------------
(* The ledger and the logins with a clock that advances between requests   *)

LoginsK ==
    {UserLogin("amy", "Pass1!"), UserLogin("a@x.io", "Pass1!"),
     UserLogin("bob", "Pass1!"), UserLogin("b@x.io", "Pass2!")}

CalculationUpdatesK ==
    {CalculationUpdate(Nothing), CalculationUpdate(Some(<<6, 3>>)),
     CalculationUpdate(Some(<<1, 0>>))}

NextClock ==
    \/ \E d \in RegistrationsC : register_user(d)
    \/ \E d \in LoginsK : login_user(d)
    \/ \E d \in LoginsK : login_form(d)
    \/ \E t \in Tokens : get_current_user_profile(t)
    \/ \E t \in Tokens, d \in {CalculationBase("add", <<4, 2>>, NoUser, Nothing),
                            CalculationBase("divide", <<4, 2>>, NoUser, Nothing)} : create_calculation(t, d, FALSE)
    \/ \E t \in Tokens, p \in CalcPaths, d \in CalculationUpdatesK :
          update_calculation(t, p, d)
    \/ Tick
    \/ Deliver

SpecClock == Init /\ [][NextClock]_vars

----------------------------------------------------------------------------
(* Every bearer-protected endpoint, called with every kind of token by      *)
(* users who register, log in, deactivate and delete their accounts         *)

TokensA == Tokens \cup {NoSubToken}

NextAuth ==
    \/ \E d \in RegistrationsC : register_user(d)
    \/ \E d \in LoginsC : login_user(d)
    \/ \E d \in LoginsC : login_form(d)
    \/ \E t \in TokensA : get_current_user_profile(t)
    \/ \E p \in UserPaths \cup {Path(0, "nonhex"), Path(1, "nonhex")} : get_user(p)
    \/ \E t \in TokensA, p \in UserPaths, d \in {UserUpdate(Unset, Unset, "Bea")} : update_user_profile(t, p, d)
    \/ \E t \in TokensA, p \in UserPaths, d \in {PasswordUpdate("Pass1!", "Pass2!")} :
          change_user_password(t, p, d)
    \/ \E t \in TokensA, p \in UserPaths : deactivate_user_account(t, p)
    \/ \E t \in TokensA, p \in UserPaths : delete_user_account(t, p)
    \/ \E t \in TokensA, d \in {CalculationBase("add", <<4, 2>>, NoUser, Nothing)} : create_calculation(t, d, FALSE)
    \/ \E t \in TokensA : list_calculations(t)
    \/ \E t \in TokensA, p \in CalcPaths : get_calculation(t, p)
    \/ \E t \in TokensA, p \in CalcPaths, d \in {CalculationUpdate(Nothing), CalculationUpdate(Some(<<3>>))} :
          update_calculation(t, p, d)
    \/ \E t \in TokensA, p \in CalcPaths : delete_calculation(t, p)
    \/ Deliver

SpecAuth == Init /\ [][NextAuth]_vars

----------------------------------------------------------------------------
(* The engine alone: evaluate applied to every kind and every operand list  *)
(* up to a length                                                           *)

EngineKinds == Kinds \cup {"addition", "subtraction", "multiplication",
                           "division", "invalid_op"}

EngineOperands == {-2, 0, 1, 3}

EngineInputs ==
    UNION {[1 .. n -> EngineOperands] : n \in 0 .. MaxLen} \cup {<<10, 5>>}

\* a call of the engine that has not returned
InitEngine ==
    /\ users = <<>>
    /\ calcs = <<>>
    /\ nextUid = 0
    /\ nextCid = 0
    /\ issued = {}
    /\ now = 0
    /\ created = {}
    /\ \E k \in EngineKinds, in \in EngineInputs :
          req = Request("evaluate", NoToken, NoPath, [type |-> k, inputs |-> in])
    /\ resp = NoResponse
    /\ txn = NoTxns

\* the call returns its outcome
Evaluate ==
    /\ req.op = "evaluate"
    /\ resp = NoResponse
    /\ resp' = evaluate(req.data.type, req.data.inputs)
    /\ UNCHANGED <<users, calcs, nextUid, nextCid, issued, now, created, req, txn>>

NextEngine == Evaluate

SpecEngine == InitEngine /\ [][NextEngine]_vars

----------------------------------------------------------------------------
(* The expiry of the login response alone: the computation applied to      *)
(* every expiry authentication may report, at every time                    *)

ExpiryInputs ==
    {NoExpiry} \cup {Expiry(at, tz) : at \in 0 .. MaxExpiry, tz \in {"naive", "utc"}}

\* a login that has authenticated and not yet answered
InitExpiry ==
    /\ users = <<>>
    /\ calcs = <<>>
    /\ nextUid = 0
    /\ nextCid = 0
    /\ issued = {}
    /\ now \in 0 .. MaxClock
    /\ created = {}
    /\ \E reported \in ExpiryInputs :
          req = Request("expires_at", NoToken, NoPath, [reported |-> reported])
    /\ resp = NoResponse
    /\ txn = NoTxns

\* the handler computes the expires_at of its response
ComputeExpiresAt ==
    /\ req.op = "expires_at"
    /\ resp = NoResponse
    /\ resp' = Response(200, "",
                  <<[expires_at |-> ResponseExpiresAt(req.data.reported, now)]>>)
    /\ UNCHANGED <<users, calcs, nextUid, nextCid, issued, now, created, req, txn>>

NextExpiry == ComputeExpiresAt

SpecExpiry == InitExpiry /\ [][NextExpiry]_vars

----------------------------------------------------------------------------
(* Concurrent profile updates and registrations.  The existence checks of  *)
(* a request read what is committed when they run; its commit comes in a   *)
(* later step, and other requests may commit in between.  The store        *)
(* refuses a commit that would break a unique column.                      *)

\* (variant: the store has no unique columns)
UniqueViolation_None(db_users, id, row) == FALSE

\* the unique columns of the users table: a row with this id, username and
\* email cannot be committed next to the rows there are
UniqueViolation(db_users, id, row) ==
    \E j \in DOMAIN db_users \ {id} :
        db_users[j].username = row.username \/ db_users[j].email = row.email

\* the UPDATE of a commit: the changed attributes of the object, column by
\* column, over the committed row
WriteChanged(committed, loaded, assigned) ==
    [f \in DOMAIN committed |->
        IF assigned[f] # loaded[f] THEN assigned[f] ELSE committed[f]]

\* an exception that is not a ValueError reaches no handler
Unhandled == Response(UnhandledStatus, "Internal Server Error", NoBody)

\* PUT /users/{user_id}, up to the commit: the dependencies, the self check
\* and the queries of update_user
BeginUpdateUser(s, token, user_id, user_update) ==
    LET current_user == get_current_active_user(users, token)
        r == UserOperations_update_user(users, user_id.id, user_update)
        answer(x) == Txn("done", "update_user_profile", current_user.uid,
                         user_id.id, [update |-> user_update], x)
    IN
    /\ txn[s].pc = "idle"
    /\ txn' = [txn EXCEPT ![s] =
                 IF ~current_user.ok
                 THEN answer(Response(current_user.status, current_user.detail, NoBody))
                 ELSE IF NotSelf(current_user.uid, user_id)
                 THEN answer(Response(403, "You can only update your own profile", NoBody))
                 ELSE IF ~r.ok
                 THEN answer(Response(400, r.err, NoBody))
                 ELSE Txn("checked", "update_user_profile", current_user.uid,
                          user_id.id,
                          [update |-> user_update, loaded |-> users[user_id.id]],
                          NoResponse)]
    /\ UNCHANGED <<users, calcs, nextUid, nextCid, issued, now, created, req, resp>>

\* user.update(**update_dict); db.commit(): the fields supplied are assigned
\* to the loaded object, and the commit writes those that changed.  The
\* refresh is a later step.
CommitUpdateUser(s) ==
    LET t == txn[s]
        row == WriteChanged(users[t.target], t.data.loaded,
                            User_update(t.data.loaded, t.data.update))
    IN
    /\ t.pc = "checked"
    /\ t.op = "update_user_profile"
    /\ IF UniqueViolation(users, t.target, row)
       THEN /\ txn' = [txn EXCEPT ![s].pc = "done", ![s].resp = Unhandled]
            /\ UNCHANGED users
       ELSE /\ users' = [users EXCEPT ![t.target] = row]
            /\ txn' = [txn EXCEPT ![s].pc = "committed"]
    /\ UNCHANGED <<calcs, nextUid, nextCid, issued, now, created, req, resp>>

\* db.refresh(user); return user: the row is read again, as it is committed
\* then, and is the answer
RefreshUpdateUser(s) ==
    LET t == txn[s] IN
    /\ t.pc = "committed"
    /\ t.op = "update_user_profile"
    /\ txn' = [txn EXCEPT ![s].pc = "done",
                          ![s].resp = IF t.target \in DOMAIN users
                                      THEN Response(200, "",
                                              <<UserResponse(t.target, users[t.target])>>)
                                      ELSE Unhandled]
    /\ UNCHANGED <<users, calcs, nextUid, nextCid, issued, now, created, req, resp>>

\* POST /users/register, up to the commit: validation and the checks of
\* User.register
BeginRegister(s, user_create) ==
    LET r == UserOperations_register_user(users, user_create, now)
        answer(x) == Txn("done", "register_user", NoUser, 0, user_create, x)
    IN
    /\ txn[s].pc = "idle"
    \* registrations that have passed their checks and not committed count
    \* for the bound on the users
    /\ nextUid + Cardinality({x \in Slots : /\ txn[x].pc = "checked"
                                            /\ txn[x].op = "register_user"}) < MaxUsers
    /\ txn' = [txn EXCEPT ![s] =
                 IF ~ValidUserCreate(user_create)
                 THEN answer(Response(422, "Password does not meet the policy", NoBody))
                 ELSE IF ~r.ok
                 THEN answer(RegisterError(r.err))
                 ELSE Txn("checked", "register_user", NoUser, 0, user_create,
                          NoResponse)]
    /\ UNCHANGED <<users, calcs, nextUid, nextCid, issued, now, created, req, resp>>

\* db.commit() of the registration
CommitRegister(s) ==
    LET t == txn[s]
        row == UserOperations_register_user(<<>>, t.data, now).user[1]
    IN
    /\ t.pc = "checked"
    /\ t.op = "register_user"
    /\ IF UniqueViolation(users, nextUid + 1, row)
       THEN /\ txn' = [txn EXCEPT ![s].pc = "done", ![s].resp = Unhandled]
            /\ UNCHANGED <<users, nextUid>>
       ELSE /\ users' = users @@ ((nextUid + 1) :> row)
            /\ nextUid' = nextUid + 1
            /\ txn' = [txn EXCEPT ![s].pc = "committed", ![s].target = nextUid + 1]
    /\ UNCHANGED <<calcs, nextCid, issued, now, created, req, resp>>

\* db.refresh(user); return user (201)
RefreshRegister(s) ==
    LET t == txn[s] IN
    /\ t.pc = "committed"
    /\ t.op = "register_user"
    /\ txn' = [txn EXCEPT ![s].pc = "done",
                          ![s].resp = IF t.target \in DOMAIN users
                                      THEN Response(201, "",
                                              <<UserResponse(t.target, users[t.target])>>)
                                      ELSE Unhandled]
    /\ UNCHANGED <<users, calcs, nextUid, nextCid, issued, now, created, req, resp>>

\* POST /users/login, up to the commit: authenticate_user finds the user,
\* verifies the password and sets last_login on the loaded object
BeginLogin(s, user_login) ==
    LET auth_result == UserOperations_authenticate_user(
                           users, user_login.username, user_login.password)
        uid == auth_result.uid
    IN
    /\ txn[s].pc = "idle"
    /\ IF auth_result.ok
       THEN \E reported \in ReportedExpiries(now) :
               txn' = [txn EXCEPT ![s] =
                         Txn("checked", "login_user", uid, uid,
                             [login    |-> user_login,
                              loaded   |-> users[uid],
                              assigned |-> [users[uid] EXCEPT !.last_login = now],
                              reported |-> reported],
                             NoResponse)]
       ELSE txn' = [txn EXCEPT ![s] =
                      Txn("done", "login_user", NoUser, 0, [login |-> user_login],
                          LoginError(auth_result.err))]
    /\ UNCHANGED <<users, calcs, nextUid, nextCid, issued, now, created, req, resp>>

\* db.commit() of the last_login update
CommitLogin(s) ==
    LET t == txn[s] IN
    /\ t.pc = "checked"
    /\ t.op = "login_user"
    /\ IF t.target \in DOMAIN users
       THEN /\ users' = [users EXCEPT ![t.target] =
                           WriteChanged(@, t.data.loaded, t.data.assigned)]
            /\ txn' = [txn EXCEPT ![s].pc = "committed"]
       ELSE /\ txn' = [txn EXCEPT ![s].pc = "done", ![s].resp = Unhandled]
            /\ UNCHANGED users
    /\ UNCHANGED <<calcs, nextUid, nextCid, issued, now, created, req, resp>>

\* the TokenResponse: the attributes of the user are read after the commit,
\* as they are committed then; the client has the token from here on
AnswerLogin(s) ==
    LET t == txn[s] IN
    /\ t.pc = "committed"
    /\ t.op = "login_user"
    /\ IF t.target \in DOMAIN users
       THEN /\ txn' = [txn EXCEPT ![s].pc = "done",
                          ![s].resp = Response(200, "",
                             <<[access_token |-> Token("ok", t.target),
                                user_id |-> t.target,
                                expires_at |-> ResponseExpiresAt(t.data.reported, now),
                                username |-> users[t.target].username,
                                email |-> users[t.target].email,
                                is_active |-> users[t.target].is_active]>>)]
            /\ issued' = issued \cup {t.target}
       ELSE /\ txn' = [txn EXCEPT ![s].pc = "done", ![s].resp = Unhandled]
            /\ UNCHANGED issued
    /\ UNCHANGED <<users, calcs, nextUid, nextCid, now, created, req, resp>>

NextUserRace ==
    \/ \E s \in Slots,
          d \in RegistrationsC \cup {UserCreate("cat", "c@x.io", "Ann", "Pass1!"),
                                    UserCreate("cat", "d@x.io", "Ann", "Pass1!")} :
          BeginRegister(s, d)
    \/ \E s \in Slots : CommitRegister(s)
    \/ \E s \in Slots : RefreshRegister(s)
    \/ \E s \in Slots, d \in LoginsC : BeginLogin(s, d)
    \/ \E s \in Slots : CommitLogin(s)
    \/ \E s \in Slots : AnswerLogin(s)
    \/ \E s \in Slots, t \in Tokens,
          d \in {UserUpdate("cat", Unset, Unset), UserUpdate(Unset, "c@x.io", "Bea"),
                 UserUpdate(Unset, Unset, "Ann")} :
          BeginUpdateUser(s, t, Path(t.sub, "canon"), d)
    \/ \E s \in Slots : CommitUpdateUser(s)
    \/ \E s \in Slots : RefreshUpdateUser(s)
    \/ \E s \in Slots : Finish(s)

SpecUserRace == Init /\ [][NextUserRace]_vars

----------------------------------------------------------------------------
(* Concurrent updates of a calculation.  A request loads the row, assigns  *)
(* inputs, result and updated_at to the loaded object, commits in a later  *)
(* step and refreshes in a third; the commit writes the columns whose      *)
(* value differs from the value that was loaded, over whatever is          *)
(* committed then, and the refresh reads what is committed then.           *)

\* PUT /calculations/{calc_id}, up to the commit: the dependencies, the
\* query, and the assignments to the loaded object
BeginUpdateCalculation(s, token, calc_id, calculation_update) ==
    LET current_user == get_current_active_user(users, token)
        calc_uuid == ParseUUID(calc_id)
        calculation == calcs[calc_uuid.id]
        res == get_result(calculation.type, calculation_update.inputs[1])
        answer(x) == Txn("done", "update_calculation", current_user.uid,
                         calc_uuid.id, calculation_update, x)
    IN
    /\ txn[s].pc = "idle"
    /\ txn' = [txn EXCEPT ![s] =
                 IF ~current_user.ok
                 THEN answer(Response(current_user.status, current_user.detail, NoBody))
                 ELSE IF ~ValidCalculationUpdate(calculation_update)
                 THEN answer(Response(422, InvalidArity, NoBody))
                 ELSE IF ~calc_uuid.ok
                 THEN answer(Response(400, InvalidIdDetail, NoBody))
                 ELSE IF ~OwnedCalculation(calcs, calc_uuid.id, current_user.uid)
                 THEN answer(Response(404, NotFoundDetail, NoBody))
                 ELSE IF calculation_update.inputs # Nothing /\ ~res.ok
                 THEN answer(Unhandled)
                 ELSE Txn("checked", "update_calculation", current_user.uid,
                          calc_uuid.id,
                          [loaded   |-> calculation,
                           assigned |-> ApplyUpdate(calculation, calculation_update,
                                                    res, now),
                           inputs   |-> calculation_update.inputs],
                          NoResponse)]
    /\ UNCHANGED <<users, calcs, nextUid, nextCid, issued, now, created, req, resp>>

\* db.commit()
CommitUpdateCalculation(s) ==
    LET t == txn[s]
        row == WriteChanged(calcs[t.target], t.data.loaded, t.data.assigned)
    IN
    /\ t.pc = "checked"
    /\ t.op = "update_calculation"
    /\ t.target \in DOMAIN calcs
    /\ calcs' = [calcs EXCEPT ![t.target] = row]
    /\ txn' = [txn EXCEPT ![s].pc = "committed"]
    /\ UNCHANGED <<users, nextUid, nextCid, issued, now, created, req, resp>>

\* db.refresh(calculation); return calculation: the row is read again, as it
\* is committed then, and is the answer
RefreshUpdateCalculation(s) ==
    LET t == txn[s] IN
    /\ t.pc = "committed"
    /\ t.op = "update_calculation"
    /\ txn' = [txn EXCEPT ![s].pc = "done",
                          ![s].resp = IF t.target \in DOMAIN calcs
                                      THEN Response(200, "",
                                              <<CalculationResponse(t.target,
                                                                    calcs[t.target])>>)
                                      ELSE Unhandled]
    /\ UNCHANGED <<users, calcs, nextUid, nextCid, issued, now, created, req, resp>>

\* POST /calculations, up to the commit: the dependencies, validation,
\* Calculation.create and get_result
BeginCreateCalculation(s, token, calculation_data) ==
    LET current_user == get_current_active_user(users, token)
        made == Calculation_create(calculation_data.type,
                                   NewOwner(current_user.uid, calculation_data),
                                   calculation_data.inputs)
        res  == get_result(calculation_data.type, calculation_data.inputs)
        answer(x) == Txn("done", "create_calculation", current_user.uid, 0,
                         [payload |-> calculation_data], x)
    IN
    /\ txn[s].pc = "idle"
    /\ nextCid + Cardinality({x \in Slots : /\ txn[x].pc = "checked"
                                            /\ txn[x].op = "create_calculation"}) < MaxCalcs
    /\ txn' = [txn EXCEPT ![s] =
                 IF ~current_user.ok
                 THEN answer(Response(current_user.status, current_user.detail, NoBody))
                 ELSE IF ~ValidCalculationBase(calculation_data, FALSE)
                 THEN answer(Response(422, evaluate(calculation_data.type,
                                                    calculation_data.inputs).err, NoBody))
                 ELSE IF ~made.ok
                 THEN answer(CreateError(made.err))
                 ELSE IF ~res.ok
                 THEN answer(CreateError(res.err))
                 ELSE Txn("checked", "create_calculation", current_user.uid, 0,
                          [payload |-> calculation_data,
                           row |-> [user_id    |-> made.calc[1].user_id,
                                    type       |-> made.calc[1].type,
                                    inputs     |-> made.calc[1].inputs,
                                    result     |-> NewResult(res.val, calculation_data),
                                    created_at |-> now,
                                    updated_at |-> now]],
                          NoResponse)]
    /\ UNCHANGED <<users, calcs, nextUid, nextCid, issued, now, created, req, resp>>

\* db.add(new_calculation); db.commit()
CommitCreateCalculation(s) ==
    LET t == txn[s] IN
    /\ t.pc = "checked"
    /\ t.op = "create_calculation"
    /\ calcs' = calcs @@ ((nextCid + 1) :> t.data.row)
    /\ nextCid' = nextCid + 1
    /\ created' = created \cup {<<t.uid, nextCid + 1>>}
    /\ txn' = [txn EXCEPT ![s].pc = "committed", ![s].target = nextCid + 1]
    /\ UNCHANGED <<users, nextUid, issued, now, req, resp>>

\* db.refresh(new_calculation); return new_calculation (201)
RefreshCreateCalculation(s) ==
    LET t == txn[s] IN
    /\ t.pc = "committed"
    /\ t.op = "create_calculation"
    /\ txn' = [txn EXCEPT ![s].pc = "done",
                          ![s].resp = IF t.target \in DOMAIN calcs
                                      THEN Response(201, "",
                                              <<CalculationResponse(t.target,
                                                                    calcs[t.target])>>)
                                      ELSE Unhandled]
    /\ UNCHANGED <<users, calcs, nextUid, nextCid, issued, now, created, req, resp>>

\* one user, one calculation; every request takes its steps next to the
\* others
NextCalcRace ==
    \/ \E s \in Slots : BeginRegister(s, UserCreate("amy", "a@x.io", "Ann", "Pass1!"))
    \/ \E s \in Slots : CommitRegister(s)
    \/ \E s \in Slots : RefreshRegister(s)
    \/ \E s \in Slots : BeginLogin(s, UserLogin("amy", "Pass1!"))
    \/ \E s \in Slots : CommitLogin(s)
    \/ \E s \in Slots : AnswerLogin(s)
    \/ \E s \in Slots, t \in Tokens :
          /\ nextCid = 0
          /\ \A x \in Slots : txn[x].op # "create_calculation"
          /\ BeginCreateCalculation(s, t, CalculationBase("add", <<4, 2>>, NoUser, Nothing))
    \/ \E s \in Slots : CommitCreateCalculation(s)
    \/ \E s \in Slots : RefreshCreateCalculation(s)
    \/ \E s \in Slots, t \in Tokens, p \in {Path(1, "canon"), BadPath},
          d \in {CalculationUpdate(Nothing), CalculationUpdate(Some(<<2, 4>>)),
                 CalculationUpdate(Some(<<1, 0>>))} :
          BeginUpdateCalculation(s, t, p, d)
    \/ \E s \in Slots : CommitUpdateCalculation(s)
    \/ \E s \in Slots : RefreshUpdateCalculation(s)
    \/ \E s \in Slots : Finish(s)

SpecCalcRace == Init /\ [][NextCalcRace]_vars

----------------------------------------------------------------------------
(* The operations layer called directly.  The functions of UserOperations  *)
(* and CalculationOperations that no endpoint of main.py calls, with a     *)
(* caller that invokes them on the session of an idle store.  A call       *)
(* answers with what the function returns (status "returned") or with the  *)
(* exception it raises (status "ValueError", its message as the detail; or  *)
(* "IntegrityError" of the store).                                          *)

\* UserOperations.activate_user
UserOperations_activate_user(db_users, user_id) ==
    IF ~UserOperations_get_user_by_id(db_users, user_id).ok
    THEN [ok |-> FALSE, err |-> UserOperations_get_user_by_id(db_users, user_id).err,
          users |-> db_users]
    ELSE [ok |-> TRUE, err |-> "",
          users |-> [db_users EXCEPT ![user_id].is_active = TRUE]]

\* CalculationOperations.get_calculation_by_id
CalculationOperations_get_calculation_by_id(db_calcs, calc_id, user_id) ==
    IF OwnedCalculation(db_calcs, calc_id, user_id)
    THEN [ok |-> TRUE, err |-> ""]
    ELSE [ok |-> FALSE,
          err |-> "Calculation with ID " \o str_UUID(calc_id)
                     \o " not found or access denied"]

\* CalculationOperations.create_calculation; id: the id the new row gets,
\* t: the time of the call
CalculationOperations_create_calculation(db_calcs, id, user_id, calculation_type, inputs, t) ==
    LET made == Calculation_create(calculation_type, user_id, inputs)
        res  == get_result(calculation_type, inputs)
    IN
    IF ~made.ok
    THEN [ok |-> FALSE, err |-> "Failed to create calculation: " \o made.err,
          calcs |-> db_calcs]
    ELSE IF ~res.ok
    THEN [ok |-> FALSE, err |-> "Failed to create calculation: " \o res.err,
          calcs |-> db_calcs]
    ELSE [ok |-> TRUE, err |-> "",
          calcs |-> db_calcs @@
                    (id :> [user_id    |-> made.calc[1].user_id,
                            type       |-> made.calc[1].type,
                            inputs     |-> made.calc[1].inputs,
                            result     |-> res.val,
                            created_at |-> t,
                            updated_at |-> t])]

\* CalculationOperations.update_calculation: inputs and result are assigned
\* when inputs are supplied; updated_at is not assigned here
CalculationOperations_update_calculation(db_calcs, calc_id, user_id, update_data) ==
    LET found == CalculationOperations_get_calculation_by_id(db_calcs, calc_id, user_id)
        res   == get_result(db_calcs[calc_id].type, update_data.inputs[1])
    IN
    IF ~found.ok
    THEN [ok |-> FALSE, err |-> found.err, calcs |-> db_calcs]
    ELSE IF update_data.inputs = Nothing
    THEN [ok |-> TRUE, err |-> "", calcs |-> db_calcs]
    ELSE IF ~res.ok
    THEN [ok |-> FALSE, err |-> "Failed to update calculation: " \o res.err,
          calcs |-> db_calcs]
    ELSE [ok |-> TRUE, err |-> "",
          calcs |-> [db_calcs EXCEPT ![calc_id].inputs = update_data.inputs[1],
                                     ![calc_id].result = res.val]]

\* CalculationOperations.delete_calculation
CalculationOperations_delete_calculation(db_calcs, calc_id, user_id) ==
    LET found == CalculationOperations_get_calculation_by_id(db_calcs, calc_id, user_id)
    IN
    IF ~found.ok
    THEN [ok |-> FALSE, err |-> found.err, calcs |-> db_calcs]
    ELSE [ok |-> TRUE, err |-> "", calcs |-> Without(db_calcs, calc_id)]

\* CalculationOperations.clear_user_calculations: every row of the user goes
\* in one commit; the count of the rows deleted is returned
CalculationOperations_clear_user_calculations(db_calcs, user_id) ==
    [count |-> Cardinality(CalculationsOf(db_calcs, user_id)),
     calcs |-> [c \in DOMAIN db_calcs \ CalculationsOf(db_calcs, user_id) |->
                    db_calcs[c]]]

Call_activate_user(user_id) ==
    LET r == UserOperations_activate_user(users, user_id) IN
    /\ Idle
    /\ req' = Request("UserOperations.activate_user", NoToken, NoPath,
                      [user_id |-> user_id])
    /\ users' = r.users
    /\ resp' = IF r.ok THEN Response("returned", "", <<UserResponse(user_id, r.users[user_id])>>)
               ELSE Response("ValueError", r.err, NoBody)
    /\ UNCHANGED <<calcs, nextUid, nextCid, issued, now, created, txn>>

Call_create_calculation(user_id, calculation_type, inputs) ==
    LET r == CalculationOperations_create_calculation(
                 calcs, nextCid + 1, user_id, calculation_type, inputs, now)
    IN
    /\ Idle
    /\ req' = Request("CalculationOperations.create_calculation", NoToken, NoPath,
                      [user_id |-> user_id, type |-> calculation_type,
                       inputs |-> inputs])
    /\ IF r.ok
       THEN \/ /\ nextCid < MaxCalcs
               /\ calcs' = r.calcs
               /\ nextCid' = nextCid + 1
               /\ created' = created \cup {<<user_id, nextCid + 1>>}
               /\ resp' = Response("returned", "",
                              <<CalculationResponse(nextCid + 1, r.calcs[nextCid + 1])>>)
               /\ UNCHANGED <<users, nextUid, issued, now, txn>>
            \* no user has this id: a store that enforces the foreign key
            \* refuses the commit, one that does not keeps the row (above)
            \/ /\ user_id \notin DOMAIN users
               /\ resp' = Response("IntegrityError", "", NoBody)
               /\ UNCHANGED store
       ELSE /\ resp' = Response("ValueError", r.err, NoBody)
            /\ UNCHANGED store

Call_update_calculation(calc_id, user_id, update_data) ==
    LET r == CalculationOperations_update_calculation(calcs, calc_id, user_id,
                                                      update_data)
    IN
    /\ Idle
    /\ req' = Request("CalculationOperations.update_calculation", NoToken, NoPath,
                      [calc_id |-> calc_id, user_id |-> user_id,
                       inputs |-> update_data.inputs])
    /\ calcs' = r.calcs
    /\ resp' = IF r.ok
               THEN Response("returned", "", <<CalculationResponse(calc_id, r.calcs[calc_id])>>)
               ELSE Response("ValueError", r.err, NoBody)
    /\ UNCHANGED <<users, nextUid, nextCid, issued, now, created, txn>>

Call_delete_calculation(calc_id, user_id) ==
    LET r == CalculationOperations_delete_calculation(calcs, calc_id, user_id) IN
    /\ Idle
    /\ req' = Request("CalculationOperations.delete_calculation", NoToken, NoPath,
                      [calc_id |-> calc_id, user_id |-> user_id])
    /\ calcs' = r.calcs
    /\ created' = IF r.ok THEN created \ {<<user_id, calc_id>>} ELSE created
    /\ resp' = IF r.ok THEN Response("returned", "", NoBody) ELSE Response("ValueError", r.err, NoBody)
    /\ UNCHANGED <<users, nextUid, nextCid, issued, now, txn>>

Call_clear_user_calculations(user_id) ==
    LET r == CalculationOperations_clear_user_calculations(calcs, user_id) IN
    /\ Idle
    /\ req' = Request("CalculationOperations.clear_user_calculations", NoToken,
                      NoPath, [user_id |-> user_id])
    /\ calcs' = r.calcs
    /\ created' = {p \in created : p[1] # user_id}
    /\ resp' = Response("returned", "", <<r.count>>)
    /\ UNCHANGED <<users, nextUid, nextCid, issued, now, txn>>

NextOperations ==
    \/ \E d \in RegistrationsC : register_user(d)
    \/ \E d \in LoginsC : login_user(d)
    \/ \E t \in Tokens : deactivate_user_account(t, Path(t.sub, "canon"))
    \/ Deliver
    \/ \E u \in 1 .. (MaxUsers + 1) : Call_activate_user(u)
    \/ \E u \in 1 .. (MaxUsers + 1), ty \in {"add", "divide", "modulus"},
          in \in {<<4, 2>>, <<1, 0>>, <<5>>} :
          Call_create_calculation(u, ty, in)
    \/ \E c \in 1 .. (MaxCalcs + 1), u \in 1 .. (MaxUsers + 1),
          d \in CalculationUpdatesK :
          Call_update_calculation(c, u, d)
    \/ \E c \in 1 .. (MaxCalcs + 1), u \in 1 .. (MaxUsers + 1) :
          Call_delete_calculation(c, u)
    \/ \E u \in 1 .. (MaxUsers + 1) : Call_clear_user_calculations(u)

SpecOperations == Init /\ [][NextOperations]_vars

----------------------------------------------------------------------------
(* Properties.  In a state where a response is pending, req is the request  *)
(* just served and resp the answer; in an action formula the unprimed       *)
(* store is the store the request met and the primed one the store it left. *)

\* the request being answered comes from an authenticated, active user
Caller(r) == r.token.sub

ActiveCaller(db_users, r) ==
    /\ r.token.kind = "ok"
    /\ r.token.sub \in DOMAIN db_users
    /\ db_users[r.token.sub].is_active

\* a step that serves a request of one of the given operations
Serves(ops) == Idle /\ req'.op \in ops

Is4xx(status) == status >= 400 /\ status <= 499

BodyIds(body) == {body[k].id : k \in 1 .. Len(body)}

\* C1: every stored calculation carries the result that evaluate gives for
\* its stored type and inputs, whatever requests were served and whatever
\* result a payload carried.
C1_ResultIsDerived ==
    \A c \in DOMAIN calcs :
        LET e == evaluate(calcs[c].type, calcs[c].inputs)
        IN  e.ok /\ calcs[c].result = e.val

\* a calculation was created from a payload that carried another result
C1_Witness ==
    /\ req.op = "create_calculation"
    /\ resp.status = 201
    /\ req.data.result # Nothing
    /\ req.data.result[1] # resp.body[1].result
    /\ resp.body[1].id \in DOMAIN calcs

\* C2: for an active caller and a well-formed id, GET /calculations/{id}
\* answers 200 with the record exactly when the calculation exists and is
\* the caller's; otherwise it answers the one 404 response, the same for a
\* missing calculation and for another user's.
C2_GetOwnedOr404 ==
    (req.op = "get_calculation" /\ ActiveCaller(users, req) /\ req.path.form # "bad")
    => LET c == req.path.id
           mine == c \in DOMAIN calcs /\ calcs[c].user_id = Caller(req)
       IN  /\ mine => resp = Response(200, "", <<CalculationResponse(c, calcs[c])>>)
           /\ ~mine => resp = Response(404, "Calculation not found.", NoBody)

\* another user's calculation was asked for and 404 was the answer
C2_Witness ==
    /\ req.op = "get_calculation"
    /\ ActiveCaller(users, req)
    /\ req.path.id \in DOMAIN calcs
    /\ calcs[req.path.id].user_id # Caller(req)
    /\ resp.status = 404

\* C3: GET /calculations by an active user lists exactly the calculations
\* that user created through POST /calculations and has not deleted, each
\* once and each owned by that user.
C3_ListIsOwnLedger ==
    (req.op = "list_calculations" /\ ActiveCaller(users, req))
    => /\ resp.status = 200
       /\ BodyIds(resp.body) = {c \in CalcIds : <<Caller(req), c>> \in created}
       /\ Cardinality(BodyIds(resp.body)) = Len(resp.body)
       /\ \A k \in 1 .. Len(resp.body) :
             /\ resp.body[k].user_id = Caller(req)
             /\ resp.body[k] = CalculationResponse(resp.body[k].id, calcs[resp.body[k].id])

\* a user lists their calculations while another user's calculation is stored
C3_Witness ==
    /\ req.op = "list_calculations"
    /\ resp.status = 200
    /\ Len(resp.body) > 0
    /\ \E c \in DOMAIN calcs : calcs[c].user_id # Caller(req)

\* C4: a PUT (with a well-formed body) or DELETE on a calculation by an
\* active user who does not own it is answered 404, and no request served
\* for a user changes or removes a calculation owned by another user.
C4_ForeignCalculationUntouched ==
    [][ /\ ( /\ Serves({"update_calculation", "delete_calculation"})
             /\ ActiveCaller(users, req')
             /\ req'.path.id \in DOMAIN calcs
             /\ calcs[req'.path.id].user_id # Caller(req')
             /\ (req'.op = "update_calculation"
                   => (req'.data.inputs = Nothing \/ Len(req'.data.inputs[1]) >= 2)) )
           => resp' = Response(404, "Calculation not found.", NoBody)
        /\ (Idle /\ ~Idle')
           => \A c \in DOMAIN calcs :
                 calcs[c].user_id # Caller(req')
                    => c \in DOMAIN calcs' /\ calcs'[c] = calcs[c]
      ]_vars

\* an active user asked to change another user's calculation
C4_Witness ==
    /\ req.op = "update_calculation"
    /\ ActiveCaller(users, req)
    /\ req.data.inputs # Nothing
    /\ req.path.id \in DOMAIN calcs
    /\ calcs[req.path.id].user_id # Caller(req)
    /\ resp.status = 404

SelfOnly == {"update_user_profile", "change_user_password",
             "deactivate_user_account", "delete_user_account"}

\* C5: on the self-only user endpoints a request by an active user whose
\* id is not the id in the path is answered 403 and changes nothing.
C5_ForeignUserForbidden ==
    [][ ( /\ Serves(SelfOnly)
          /\ ActiveCaller(users, req')
          /\ req'.path.id # Caller(req') )
        => /\ resp'.status = 403
           /\ users' = users
           /\ calcs' = calcs
      ]_vars

\* an active user asked to delete another existing user
C5_Witness ==
    /\ req.op = "delete_user_account"
    /\ ActiveCaller(users, req)
    /\ req.path.id \in DOMAIN users
    /\ req.path.id # Caller(req)
    /\ resp.status = 403

\* the users an identifier names
Named(db_users, identifier) ==
    {j \in DOMAIN db_users :
        db_users[j].username = identifier \/ db_users[j].email = identifier}

\* C6: a login that names no user and a login that names a user with a
\* wrong password get the same answer, 401 with the one detail and no
\* token, and leave every user record as it was.
C6_LoginFailuresAlike ==
    [][ ( /\ Serves({"login_user"})
          /\ \A j \in Named(users, req'.data.username) :
                users[j].password # <<"hash", req'.data.password>> )
        => /\ resp' = Response(401, "Invalid username or password", NoBody)
           /\ users' = users
           /\ issued' = issued
      ]_vars

\* a login named an existing user with a wrong password
C6_Witness ==
    /\ req.op = "login_user"
    /\ Named(users, req.data.username) # {}
    /\ resp.status = 401

\* C7: no two users have the same username or the same email, letter case
\* ignored.
C7_UniqueIgnoringCase ==
    \A i, j \in DOMAIN users :
        i # j => /\ Lower(users[i].username) # Lower(users[j].username)
                 /\ Lower(users[i].email) # Lower(users[j].email)

\* C8: a registration (with an acceptable password) whose username or email
\* is, letter case ignored, that of an existing user is answered 400 with
\* an "already exists" detail and leaves the directory as it was.
C8_DuplicateRegistrationRejected ==
    [][ ( /\ Serves({"register_user"})
          /\ req'.data.password \in Passwords
          /\ \E j \in DOMAIN users :
                \/ Lower(users[j].username) = Lower(req'.data.username)
                \/ Lower(users[j].email) = Lower(req'.data.email) )
        => /\ resp' = Response(400, "Username or email already exists", NoBody)
           /\ users' = users
           /\ nextUid' = nextUid
      ]_vars

\* a registration collided with a user only up to letter case
C8_Witness ==
    /\ req.op = "register_user"
    /\ resp.status = 400
    /\ \E j \in DOMAIN users :
          /\ users[j].email # req.data.email
          /\ Lower(users[j].email) = Lower(req.data.email)

\* the payload is one the engine refuses
EngineRefuses(data) ==
    \/ data.type \notin {"add", "subtract", "multiply", "divide",
                         "addition", "subtraction", "multiplication", "division"}
    \/ Len(data.inputs) < 2
    \/ /\ data.type \in {"divide", "division"}
       /\ \E k \in 2 .. Len(data.inputs) : data.inputs[k] = 0

\* C9: a POST /calculations by an active user whose evaluation fails is
\* answered with a 4xx status and stores nothing.
C9_FailedCreateStoresNothing ==
    [][ ( /\ Serves({"create_calculation"})
          /\ ActiveCaller(users, req')
          /\ EngineRefuses(req'.data) )
        => /\ Is4xx(resp'.status)
           /\ calcs' = calcs
           /\ nextCid' = nextCid
      ]_vars

\* a division by zero was refused by the handler
C9_Witness ==
    /\ req.op = "create_calculation"
    /\ req.data.type = "divide"
    /\ req.data.inputs = <<1, 0>>
    /\ resp.status = 400

\* C10: a PUT by the owner with inputs the engine refuses for the stored
\* type is answered with a 4xx status, and the stored calculation keeps
\* its inputs and result.
C10_FailedUpdateReported4xx ==
    [][ ( /\ Serves({"update_calculation"})
          /\ ActiveCaller(users, req')
          /\ req'.path.id \in DOMAIN calcs
          /\ calcs[req'.path.id].user_id = Caller(req')
          /\ req'.data.inputs # Nothing
          /\ EngineRefuses([type |-> calcs[req'.path.id].type,
                            inputs |-> req'.data.inputs[1]]) )
        => /\ Is4xx(resp'.status)
           /\ calcs' = calcs
      ]_vars

\* C11: a PUT /calculations/{id} answered 200 was made by the owner; with
\* inputs I' it stores I' and the result evaluate gives for the unchanged
\* type and I'; without inputs it keeps inputs and result; in both cases
\* updated_at becomes the time of the request and id, owner, type and
\* created_at stay as they were, and no other calculation changes.
C11_UpdateStoresDerived ==
    [][ (Serves({"update_calculation"}) /\ resp'.status = 200)
        => LET c == req'.path.id IN
           /\ c \in DOMAIN calcs
           /\ DOMAIN calcs' = DOMAIN calcs
           /\ \A d \in DOMAIN calcs : d # c => calcs'[d] = calcs[d]
           /\ calcs[c].user_id = Caller(req')
           /\ calcs'[c].user_id = calcs[c].user_id
           /\ calcs'[c].type = calcs[c].type
           /\ calcs'[c].created_at = calcs[c].created_at
           /\ calcs'[c].updated_at = now
           /\ IF req'.data.inputs # Nothing
              THEN LET e == evaluate(calcs[c].type, req'.data.inputs[1]) IN
                   /\ e.ok
                   /\ calcs'[c].inputs = req'.data.inputs[1]
                   /\ calcs'[c].result = e.val
              ELSE /\ calcs'[c].inputs = calcs[c].inputs
                   /\ calcs'[c].result = calcs[c].result
      ]_vars

\* an owner replaced the inputs of a calculation some time after creating it
C11_Witness ==
    /\ req.op = "update_calculation"
    /\ resp.status = 200
    /\ req.data.inputs = <<(<<6, 3>>)>>
    /\ calcs[req.path.id].inputs = <<6, 3>>
    /\ calcs[req.path.id].updated_at > calcs[req.path.id].created_at

\* C12: change-password by an active user on their own id replaces the
\* stored hash by the hash of the new password and answers 200 when the
\* current password given verifies against the stored hash, and answers 400
\* and leaves every user as it was when it does not; no change-password
\* request changes a hash otherwise.  A login naming a user is answered 200
\* exactly when its password verifies against that user's stored hash and
\* 401 when it does not, so after a change the old password is refused and
\* the new one accepted, and after a refused change the old one still is.
C12_PasswordChangeGuardsHash ==
    [][ /\ ( /\ Serves({"change_user_password"})
             /\ ActiveCaller(users, req')
             /\ req'.path = Path(Caller(req'), "canon") )
           => LET u == Caller(req')
                  verified == users[u].password = <<"hash", req'.data.current_password>>
              IN  /\ verified =>
                        /\ resp'.status = 200
                        /\ users' = [users EXCEPT
                                       ![u].password = <<"hash", req'.data.new_password>>]
                  /\ ~verified => (resp'.status = 400 /\ users' = users)
        /\ (Serves({"change_user_password"}) /\ users' # users)
           => /\ ActiveCaller(users, req')
              /\ users[Caller(req')].password = <<"hash", req'.data.current_password>>
        /\ (Serves({"login_user"}) /\ Named(users, req'.data.username) # {})
           => /\ resp'.status \in {200, 401}
              /\ resp'.status = 200
                    <=> \E j \in Named(users, req'.data.username) :
                           users[j].password = <<"hash", req'.data.password>>
      ]_vars

\* after a change of password a login with the old password was refused
C12_Witness ==
    /\ req.op = "login_user"
    /\ req.data.password = "Pass1!"
    /\ resp.status = 401
    /\ \E j \in Named(users, req.data.username) :
          users[j].password = <<"hash", "Pass2!">>

\* the endpoints that take a bearer token
Bearer == SelfOnly \cup {"get_current_user_profile", "create_calculation",
                         "list_calculations", "get_calculation",
                         "update_calculation", "delete_calculation"}

\* the token of the request is a verified token of an existing user who is
\* not active
InactiveCaller(db_users, r) ==
    /\ r.token.kind = "ok"
    /\ r.token.sub \in DOMAIN db_users
    /\ ~db_users[r.token.sub].is_active

\* C13: a deactivate request answered 200 leaves the user of the path (the
\* caller) inactive; an inactive user stays inactive as long as the record
\* exists; and every bearer-protected request whose token is a token of an
\* inactive user is answered 400 "Inactive user" and changes nothing.
C13_InactiveRejected ==
    [][ /\ (Serves({"deactivate_user_account"}) /\ resp'.status = 200)
           => /\ req'.path.id = Caller(req')
              /\ req'.path.id \in DOMAIN users'
              /\ ~users'[req'.path.id].is_active
              /\ resp'.body[1].is_active = FALSE
        /\ \A u \in DOMAIN users \cap DOMAIN users' :
              ~users[u].is_active => ~users'[u].is_active
        /\ (Serves(Bearer) /\ InactiveCaller(users, req'))
           => /\ resp' = Response(400, "Inactive user", NoBody)
              /\ store' = store
      ]_vars

\* a user who logged in and then deactivated the account asked to create a
\* calculation with the token and was refused
C13_Witness ==
    /\ req.op = "create_calculation"
    /\ InactiveCaller(users, req)
    /\ Caller(req) \in issued
    /\ resp.status = 400
    /\ calcs = <<>>

\* C14: a DELETE /users/{id} answered 204 removes the user of the path (the
\* caller); a removed user never comes back; GET /users/{id} for an id that
\* names no user is answered 404; and every bearer-protected request whose
\* token is a verified token of a user who does not exist is answered 401
\* "Could not validate credentials" and changes nothing.
C14_DeletedUserIsGone ==
    [][ /\ (Serves({"delete_user_account"}) /\ resp'.status = 204)
           => /\ req'.path.id = Caller(req')
              /\ req'.path.id \in DOMAIN users
              /\ req'.path.id \notin DOMAIN users'
        /\ \A u \in 1 .. nextUid : u \notin DOMAIN users => u \notin DOMAIN users'
        /\ (Serves({"get_user"}) /\ req'.path.form # "bad"
                                 /\ req'.path.id \notin DOMAIN users)
           => resp'.status = 404
        /\ (Serves(Bearer) /\ req'.token.kind = "ok"
                           /\ req'.token.sub \notin DOMAIN users)
           => /\ resp' = Response(401, "Could not validate credentials", NoBody)
              /\ store' = store
      ]_vars

\* a token issued to a user who has since deleted the account was presented
C14_Witness ==
    /\ req.op \in Bearer
    /\ req.token.kind = "ok"
    /\ req.token.sub \in issued
    /\ req.token.sub \in 1 .. nextUid
    /\ req.token.sub \notin DOMAIN users
    /\ req.op # "delete_user_account"
    /\ resp.status = 401

\* C15: the owner of every stored calculation is an existing user.
C15_NoOrphanCalculation ==
    \A c \in DOMAIN calcs : calcs[c].user_id \in DOMAIN users

\* a user who had created a calculation deleted the account, and the
\* calculation went with it
C15_Witness ==
    /\ req.op = "delete_user_account"
    /\ resp.status = 204
    /\ Caller(req) \notin DOMAIN users
    /\ \E c \in CalcIds : <<Caller(req), c>> \in created /\ c \notin DOMAIN calcs
    /\ calcs # <<>>

\* the token of the request does not resolve to a user: it does not verify,
\* carries no subject, or its subject names no user
Unresolved(db_users, r) ==
    \/ r.token.kind # "ok"
    \/ r.token.sub \notin DOMAIN db_users

\* C16: on every bearer-protected endpoint, whatever the path and the body,
\* a request whose token does not resolve to a user is answered 401; a
\* request whose token resolves to an inactive user is answered 400
\* "Inactive user"; both change nothing; and the answers of the checks that
\* come later (403, 404, 400 for a malformed calculation id, 422) are given
\* only to an authenticated active caller.
C16_ChecksInOrder ==
    [][ Serves(Bearer)
        => /\ Unresolved(users, req')
              => /\ resp' = Response(401, "Could not validate credentials", NoBody)
                 /\ store' = store
           /\ InactiveCaller(users, req')
              => /\ resp' = Response(400, "Inactive user", NoBody)
                 /\ store' = store
           /\ ( \/ resp'.status \in {403, 404, 422}
                \/ resp'.detail = "Invalid calculation id format." )
              => ActiveCaller(users, req')
      ]_vars

\* an inactive user asked to change another user's profile and was answered
\* 400, not 403
C16_Witness ==
    /\ req.op = "update_user_profile"
    /\ InactiveCaller(users, req)
    /\ req.path.id \in DOMAIN users
    /\ req.path.id # Caller(req)
    /\ resp.status = 400

\* C17: a login whose identifier is the username or the email of a user
\* and whose password is that user's is answered 200; it sets that user's
\* last_login to the time of the login and changes nothing else; the
\* response names that user and its access token has that user as subject;
\* and GET /users/me with the token of an active user answers 200 with the
\* id, username and email of the token's subject and of no other user.
C17_LoginResolvesToSelf ==
    [][ /\ Serves({"login_user"})
           => \A j \in DOMAIN users :
                 ( /\ req'.data.username \in {users[j].username, users[j].email}
                   /\ users[j].password = <<"hash", req'.data.password>> )
                 => /\ resp'.status = 200
                    /\ resp'.body[1].user_id = j
                    /\ resp'.body[1].username = users[j].username
                    /\ resp'.body[1].email = users[j].email
                    /\ resp'.body[1].access_token = [kind |-> "ok", sub |-> j]
                    /\ users' = [users EXCEPT ![j].last_login = now]
        /\ (Serves({"get_current_user_profile"}) /\ ActiveCaller(users, req'))
           => /\ resp'.status = 200
              /\ resp'.body[1].id = Caller(req')
              /\ resp'.body[1].username = users[Caller(req')].username
              /\ resp'.body[1].email = users[Caller(req')].email
              /\ \A k \in DOMAIN users :
                    k # Caller(req') => /\ resp'.body[1].id # k
                                        /\ resp'.body[1].username # users[k].username
                                        /\ resp'.body[1].email # users[k].email
      ]_vars

\* with two users registered, one logged in by email some time after
\* registering
C17_Witness ==
    /\ req.op = "login_user"
    /\ req.data.username = "a@x.io"
    /\ resp.status = 200
    /\ Cardinality(DOMAIN users) = 2
    /\ users[resp.body[1].user_id].email = "a@x.io"
    /\ users[resp.body[1].user_id].last_login = now
    /\ users[resp.body[1].user_id].last_login > users[resp.body[1].user_id].created_at

ProfileFields == {"username", "email", "first_name"}

\* C18: a profile update answered 200 is the caller's own; it gives each
\* supplied profile field the supplied value and leaves every other field
\* of the user (the profile fields not supplied, the password hash, the
\* active flag, created_at, last_login) and every other user as they were.
\* An update that is not answered 200 changes no user; in particular an
\* update whose username or email is that of another user is answered 400
\* and changes nothing, the other fields it supplies included.
C18_UpdateTouchesSuppliedOnly ==
    [][ Serves({"update_user_profile"})
        => LET u == req'.path.id
               d == req'.data
           IN
           /\ resp'.status = 200
              => /\ u = Caller(req')
                 /\ DOMAIN users' = DOMAIN users
                 /\ \A k \in DOMAIN users : k # u => users'[k] = users[k]
                 /\ \A f \in ProfileFields :
                       users'[u][f] = IF d[f] # "" THEN d[f] ELSE users[u][f]
                 /\ users'[u].password = users[u].password
                 /\ users'[u].is_active = users[u].is_active
                 /\ users'[u].created_at = users[u].created_at
                 /\ users'[u].last_login = users[u].last_login
           /\ resp'.status # 200 => users' = users
           /\ ( /\ ActiveCaller(users, req')
                /\ req'.path = Path(Caller(req'), "canon")
                /\ \E k \in DOMAIN users :
                      /\ k # u
                      /\ \/ (d.username # "" /\ users[k].username = d.username)
                         \/ (d.email # "" /\ users[k].email = d.email) )
              => (resp'.status = 400 /\ users' = users)
      ]_vars

\* an update that supplied a first name and another user's username was
\* refused, and the first name was not changed
C18_Witness ==
    /\ req.op = "update_user_profile"
    /\ resp.status = 400
    /\ resp.detail = "Username already exists"
    /\ req.data.first_name = "Bea"
    /\ users[Caller(req)].first_name = "Ann"

\* the engine has returned from the call in req
Evaluated == req.op = "evaluate" /\ resp # NoResponse

\* C19: a division over at least two operands fails with DivisionByZero
\* when some operand after the first is zero, whatever the first operand
\* and the other operands are and wherever the zero stands; when no operand
\* after the first is zero it yields a result, a zero first operand included.
C19_ZeroDivisorAnywhere ==
    (Evaluated /\ req.data.type \in {"divide", "division"} /\ Len(req.data.inputs) >= 2)
    => LET in == req.data.inputs IN
       IF \E k \in 2 .. Len(in) : in[k] = 0
       THEN ~resp.ok /\ resp.err = DivisionByZero
       ELSE resp.ok /\ (in[1] = 0 => resp.val = <<0, 1>>)

\* a division whose last of three operands is zero, after a divisor that
\* is not, was refused
C19_Witness ==
    /\ Evaluated
    /\ req.data.type = "divide"
    /\ req.data.inputs = <<1, 3, 0>>
    /\ resp.err = DivisionByZero

\* C20: for each of the four kinds (and their aliases) an operand list of
\* fewer than two operands fails with InvalidArity and yields no result; a
\* kind that is none of them fails with UnknownKind.
C20_ArityAndKindRefused ==
    Evaluated
    => LET known == req.data.type \in {"add", "subtract", "multiply", "divide",
                                       "addition", "subtraction",
                                       "multiplication", "division"}
       IN  /\ (known /\ Len(req.data.inputs) < 2)
              => (~resp.ok /\ resp.err = InvalidArity)
           /\ ~known => (~resp.ok /\ resp.err = UnknownKind)

\* a multiplication of a single operand was refused
C20_Witness ==
    /\ Evaluated
    /\ req.data.type = "multiply"
    /\ req.data.inputs = <<3>>
    /\ ~resp.ok
    /\ resp.err = InvalidArity

\* the sum and the product of a list of integers
RECURSIVE SumOf(_)
SumOf(seq) == IF seq = <<>> THEN 0 ELSE Head(seq) + SumOf(Tail(seq))

RECURSIVE ProdOf(_)
ProdOf(seq) == IF seq = <<>> THEN 1 ELSE Head(seq) * ProdOf(Tail(seq))

\* the kind an alias stands for
KindOf(type) ==
    CASE type = "addition"       -> "add"
      [] type = "subtraction"    -> "subtract"
      [] type = "multiplication" -> "multiply"
      [] type = "division"       -> "divide"
      [] OTHER                   -> type

\* C21: for a list of two or more operands, add gives the sum of the whole
\* list, subtract the first operand less all the others, multiply the
\* product of the whole list, and divide (no divisor being zero) the first
\* operand divided by all the others; an alias gives what its kind gives.
\* For [10, 5]: divide 2, add 15, multiply 50, subtract 5.
C21_ReducesWholeList ==
    (Evaluated /\ Len(req.data.inputs) >= 2)
    => LET in == req.data.inputs
           k  == KindOf(req.data.type)
           v  == resp.val
       IN  /\ k = "add"      => (resp.ok /\ v = <<SumOf(in), 1>>)
           /\ k = "subtract" => (resp.ok /\ v = <<in[1] - SumOf(Tail(in)), 1>>)
           /\ k = "multiply" => (resp.ok /\ v = <<ProdOf(in), 1>>)
           /\ (k = "divide" /\ ProdOf(Tail(in)) # 0)
                 => (resp.ok /\ v[2] > 0 /\ v[1] * ProdOf(Tail(in)) = in[1] * v[2])
           /\ resp = evaluate(k, in)
           /\ in = <<10, 5>>
                 => /\ k = "divide"   => v = <<2, 1>>
                    /\ k = "add"      => v = <<15, 1>>
                    /\ k = "multiply" => v = <<50, 1>>
                    /\ k = "subtract" => v = <<5, 1>>

\* a subtraction under its alias over three operands: (3 - 1) - (-2) = 4
C21_Witness ==
    /\ Evaluated
    /\ req.data.type = "subtraction"
    /\ req.data.inputs = <<3, 1, -2>>
    /\ resp.ok
    /\ resp.val = <<4, 1>>

\* C22: the list of a user's calculations is in creation order: of two
\* calculations in the list, the one created earlier (ids are handed out
\* in creation order) stands before the one created later.
C22_ListInCreationOrder ==
    (req.op = "list_calculations" /\ resp.status = 200)
    => \A i, j \in 1 .. Len(resp.body) :
          i < j => resp.body[i].id < resp.body[j].id

CalcById == {"get_calculation", "update_calculation", "delete_calculation"}

\* C23: a DELETE /calculations/{id} answered 204 was made by the owner and
\* removes that calculation and nothing else: every other calculation, of
\* the owner and of other users, is unchanged.  A removed calculation never
\* comes back (its id is not handed out again); GET, PUT (with a well-formed
\* body) and DELETE by an active caller on an id that names no calculation
\* are answered 404; and no list contains an id that names no calculation.
C23_DeletedCalculationIsGone ==
    [][ /\ (Serves({"delete_calculation"}) /\ resp'.status = 204)
           => LET c == req'.path.id IN
              /\ c \in DOMAIN calcs
              /\ calcs[c].user_id = Caller(req')
              /\ DOMAIN calcs' = DOMAIN calcs \ {c}
              /\ \A d \in DOMAIN calcs' : calcs'[d] = calcs[d]
        /\ \A c \in 1 .. nextCid : c \notin DOMAIN calcs => c \notin DOMAIN calcs'
        /\ ( /\ Serves(CalcById)
             /\ ActiveCaller(users, req')
             /\ req'.path.form # "bad"
             /\ req'.path.id \notin DOMAIN calcs
             /\ (req'.op = "update_calculation"
                   => (req'.data.inputs = Nothing \/ Len(req'.data.inputs[1]) >= 2)) )
           => /\ resp' = Response(404, "Calculation not found.", NoBody)
              /\ calcs' = calcs
        /\ (Serves({"list_calculations"}) /\ resp'.status = 200)
           => \A k \in 1 .. Len(resp'.body) : resp'.body[k].id \in DOMAIN calcs
      ]_vars

\* the owner asked again for a calculation they had deleted, while another
\* calculation was still stored
C23_Witness ==
    /\ req.op = "get_calculation"
    /\ ActiveCaller(users, req)
    /\ req.path.id \in 1 .. nextCid
    /\ req.path.id \notin DOMAIN calcs
    /\ <<Caller(req), req.path.id>> \notin created
    /\ calcs # <<>>
    /\ resp.status = 404

\* C24: on every bearer-protected endpoint a token that does not verify, a
\* verified token without subject and a verified token whose subject names
\* no user are all answered with the one response, 401 "Could not validate
\* credentials", and none of them changes anything.
C24_TokenFailuresAlike ==
    [][ ( /\ Serves(Bearer)
          /\ \/ req'.token.kind = "bad"
             \/ req'.token.kind = "nosub"
             \/ (req'.token.kind = "ok" /\ req'.token.sub \notin DOMAIN users) )
        => /\ resp'.status = 401
           /\ resp'.detail = "Could not validate credentials"
           /\ resp'.body = NoBody
           /\ store' = store
      ]_vars

\* a verified token without subject was presented while users exist
C24_Witness ==
    /\ req.op \in Bearer
    /\ req.token.kind = "nosub"
    /\ users # <<>>
    /\ resp.status = 401
    /\ resp.detail = "Could not validate credentials"

\* C25: for an active caller, GET, PUT (with a well-formed body) and DELETE
\* on /calculations/{id} with an id that is not a well-formed identifier
\* are answered 400 "Invalid calculation id format.", whatever is stored,
\* and change no calculation.
C25_MalformedIdRefused ==
    [][ ( /\ Serves(CalcById)
          /\ ActiveCaller(users, req')
          /\ req'.path.form = "bad"
          /\ (req'.op = "update_calculation"
                => (req'.data.inputs = Nothing \/ Len(req'.data.inputs[1]) >= 2)) )
        => /\ resp' = Response(400, "Invalid calculation id format.", NoBody)
           /\ calcs' = calcs
           /\ created' = created
      ]_vars

\* a PUT with new inputs and a malformed id was refused while the caller
\* had a calculation stored
C25_Witness ==
    /\ req.op = "update_calculation"
    /\ ActiveCaller(users, req)
    /\ req.path.form = "bad"
    /\ req.data.inputs # Nothing
    /\ \E c \in DOMAIN calcs : calcs[c].user_id = Caller(req)
    /\ resp.status = 400

\* C26: the expires_at of the login response is the instant authentication
\* reported, whenever it reported one, with or without a time zone; it is
\* the current time plus 15 minutes only when authentication reported none.
C26_ExpiryIsReported ==
    (req.op = "expires_at" /\ resp # NoResponse)
    => LET reported == req.data.reported
           answered == resp.body[1].expires_at
       IN  /\ answered.tz = "utc"
           /\ reported.tz # "none" => answered.at = reported.at
           /\ reported.tz = "none" => answered.at = now + 15

\* C27: whatever request is served, for whatever caller, a user who is
\* inactive stays in the directory, stays inactive and keeps username,
\* email, first name and password hash; and the inactive user's own
\* requests to update the profile, change the password or delete the
\* account are answered 400 "Inactive user".
C27_DeactivationIsFinal ==
    [][ /\ \A u \in DOMAIN users :
              ~users[u].is_active
              => /\ u \in DOMAIN users'
                 /\ ~users'[u].is_active
                 /\ users'[u].username = users[u].username
                 /\ users'[u].email = users[u].email
                 /\ users'[u].first_name = users[u].first_name
                 /\ users'[u].password = users[u].password
        /\ ( /\ Serves({"update_user_profile", "change_user_password",
                        "delete_user_account"})
             /\ InactiveCaller(users, req')
             /\ req'.path = Path(Caller(req'), "canon") )
           => resp' = Response(400, "Inactive user", NoBody)
      ]_vars

\* a deactivated user asked to delete their own account and was refused
C27_Witness ==
    /\ req.op = "delete_user_account"
    /\ InactiveCaller(users, req)
    /\ req.path = Path(Caller(req), "canon")
    /\ resp = Response(400, "Inactive user", NoBody)

\* the request in flight asks for this username / this email
Asked(t) == IF t.op = "update_user_profile" THEN t.data.update ELSE t.data

Writes(t) == t.op \in {"update_user_profile", "register_user"}

AsksUsername(t, name) == Writes(t) /\ Asked(t).username = name /\ name # ""
AsksEmail(t, mail)    == Writes(t) /\ Asked(t).email = mail /\ mail # ""

\* another user holds the username or the email that the request in slot s
\* asks for its own user
Taken(s) ==
    \E u \in DOMAIN users :
        /\ u # txn[s].target
        /\ \/ AsksUsername(txn[s], users[u].username)
           \/ AsksEmail(txn[s], users[u].email)

\* a request that has passed its existence check does not commit while
\* another user holds what it asks
NoSecondCommit ==
    \A s \in Slots :
        (txn[s].pc = "checked" /\ Taken(s)) => txn'[s].pc # "committed"

UniqueUsers ==
    \A i, j \in DOMAIN users :
        i # j => /\ users[i].username # users[j].username
                 /\ users[i].email # users[j].email

C30_OwnIdNeverForbidden ==
    [][ ( /\ Serves(SelfOnly)
          /\ ActiveCaller(users, req')
          /\ req'.path.form \in {"canon", "upper"}
          /\ req'.path.id = Caller(req') )
        => resp'.status # 403
      ]_vars

====
